---- MODULE Spec2Model ----
(***************************************************************************)
(* Model of the agentic retrieval loop of backend/agentic_rag.py           *)
(* (class AgenticFitnessRAG): planner, strategy selector, retrieval        *)
(* strategies, quality scorer, stop decision, memory and synthesis.        *)
(*                                                                         *)
(* Python floats are modelled as exact rationals [n, d] in lowest terms.   *)
(* A text (image analysis, recommendation) is modelled by what the code    *)
(* reads of it: whether it is empty, whether it is longer than 50          *)
(* characters, and which of the searched substrings it contains.           *)
(***************************************************************************)
EXTENDS Integers, Sequences, FiniteSets, TLC

(***************************************************************************)
(* Bounds of the model.                                                    *)
(***************************************************************************)
\* largest configured AGENTIC_RAG_MAX_ITERATIONS explored
MaxIterCap == 3
\* number of requests served by one controller instance
MaxRequests == 2
\* period of the failure pattern of the stubbed search collaborator
MaskWidth == 3
\* number of direct memory updates explored by SpecMemory
MaxUpdates == 12
\* largest iteration index handed to the strategy selector by SpecSelect
MaxProbeIter == 2
\* longest cumulative result list handed to the selector by SpecSelect
MaxProbeLen == 3
\* longest list of new results handed to the quality scorer by SpecAssess
MaxAssessLen == 3
\* largest iteration index handed to a retrieval strategy by SpecSearch
MaxSearchIter == 6

(***************************************************************************)
(* Program constants.                                                      *)
(***************************************************************************)
\* agentic_rag.py:552-553, sliding window of the strategy memory
MemoryWindow == 10
\* agentic_rag.py:405 and 472, hits kept per broad / multi-angle query
BroadTop == 2
\* agentic_rag.py:434, hits kept per targeted query
TargetedTop == 3
\* agentic_rag.py:358, fewer cumulative results select MULTI_ANGLE_APPROACH
MinResults == 3

BROAD_SEARCH == "broad_search"
TARGETED_SEARCH == "targeted_search"
PROGRESSIVE_REFINEMENT == "progressive_refinement"
MULTI_ANGLE_APPROACH == "multi_angle_approach"
AgentStrategy ==
    {BROAD_SEARCH, TARGETED_SEARCH, PROGRESSIVE_REFINEMENT, MULTI_ANGLE_APPROACH}
\* value of current_strategy before the first iteration (Python None)
NoStrategy == "None"

(***************************************************************************)
(* Exact rational arithmetic standing for Python float arithmetic.         *)
(***************************************************************************)
RECURSIVE GCD(_, _)
GCD(a, b) == IF b = 0 THEN a ELSE GCD(b, a % b)

Abs(x) == IF x < 0 THEN -x ELSE x

Rat(n, d) ==
    LET g == GCD(Abs(n), d)
    IN  IF n = 0 THEN [n |-> 0, d |-> 1] ELSE [n |-> n \div g, d |-> d \div g]

Zero == [n |-> 0, d |-> 1]
One == [n |-> 1, d |-> 1]
RAdd(a, b) == Rat(a.n * b.d + b.n * a.d, a.d * b.d)
RMul(a, b) == Rat(a.n * b.n, a.d * b.d)
RLt(a, b) == a.n * b.d < b.n * a.d
RGe(a, b) == a.n * b.d >= b.n * a.d
RMin(a, b) == IF RLt(b, a) THEN b ELSE a

RECURSIVE RSum(_)
RSum(s) == IF s = <<>> THEN Zero ELSE RAdd(Head(s), RSum(Tail(s)))

(***************************************************************************)
(* Sequence helpers.                                                       *)
(***************************************************************************)
Range(s) == {s[i] : i \in 1..Len(s)}
Take(s, k) == SubSeq(s, 1, IF Len(s) < k THEN Len(s) ELSE k)
LastN(s, k) == IF Len(s) <= k THEN s ELSE SubSeq(s, Len(s) - k + 1, Len(s))
IsPrefix(s, t) == Len(s) <= Len(t) /\ SubSeq(t, 1, Len(s)) = s

RECURSIVE Flatten(_)
Flatten(ss) == IF ss = <<>> THEN <<>> ELSE Head(ss) \o Flatten(Tail(ss))

RECURSIVE SelectSeqBy(_, _)
\* the elements of s (in order) that are members of the set keep
SelectSeqBy(s, keep) ==
    IF s = <<>> THEN <<>>
    ELSE IF Head(s) \in keep THEN <<Head(s)>> \o SelectSeqBy(Tail(s), keep)
         ELSE SelectSeqBy(Tail(s), keep)

(***************************************************************************)
(* Texts.  A text is [empty, long, has]: whether it is the empty string,   *)
(* whether its stripped length exceeds 50, and the set of searched         *)
(* substrings it contains.                                                 *)
(***************************************************************************)
EmptyText == [empty |-> TRUE, long |-> FALSE, has |-> {}]
Contains(text, term) == term \in text.has
ContainsAny(text, terms) == \E t \in terms : Contains(text, t)
\* Python truthiness of a string
Truthy(text) == ~text.empty

(***************************************************************************)
(* Goal tables of the planner and of the retrieval strategies.  A sub-goal *)
(* identifier and a query are sequences of words: the identifier's words   *)
(* are joined by "_", the query's by " ".                                  *)
(***************************************************************************)
Goals == {"weight_loss", "muscle_gain", "cardio", "strength", "general"}

\* a lookup without the else branch: a goal outside the closed set gets no
\* base sub-goal
BaseSubGoalsOfKnownGoals(goal) ==
    CASE goal = "weight_loss" ->
           << <<"find", "high", "intensity", "cardio">>,
              <<"identify", "calorie", "burning", "exercises">>,
              <<"locate", "nutrition", "guidance">>,
              <<"discover", "progression", "strategies">> >>
      [] goal = "muscle_gain" ->
           << <<"find", "progressive", "strength", "exercises">>,
              <<"identify", "muscle", "building", "protocols">>,
              <<"locate", "nutrition", "for", "growth">>,
              <<"discover", "recovery", "strategies">> >>
      [] goal = "cardio" ->
           << <<"find", "endurance", "training", "methods">>,
              <<"identify", "cardio", "progressions">>,
              <<"locate", "heart", "rate", "guidance">>,
              <<"discover", "training", "variations">> >>
      [] goal \in {"general", "strength"} ->
           << <<"find", "foundational", "exercises">>,
              <<"identify", "balanced", "routines">>,
              <<"locate", "beginner", "progressions">>,
              <<"discover", "safety", "guidelines">> >>
      [] OTHER -> <<>>

\* agentic_rag.py:272-323, the four base sub-goals of each goal category
BaseSubGoals(goal) ==
    CASE goal = "weight_loss" ->
           << <<"find", "high", "intensity", "cardio">>,
              <<"identify", "calorie", "burning", "exercises">>,
              <<"locate", "nutrition", "guidance">>,
              <<"discover", "progression", "strategies">> >>
      [] goal = "muscle_gain" ->
           << <<"find", "progressive", "strength", "exercises">>,
              <<"identify", "muscle", "building", "protocols">>,
              <<"locate", "nutrition", "for", "growth">>,
              <<"discover", "recovery", "strategies">> >>
      [] goal = "cardio" ->
           << <<"find", "endurance", "training", "methods">>,
              <<"identify", "cardio", "progressions">>,
              <<"locate", "heart", "rate", "guidance">>,
              <<"discover", "training", "variations">> >>
      [] OTHER ->
           << <<"find", "foundational", "exercises">>,
              <<"identify", "balanced", "routines">>,
              <<"locate", "beginner", "progressions">>,
              <<"discover", "safety", "guidelines">> >>

\* agentic_rag.py:280-330, (visual-insight flag, appended sub-goal) in order
ConditionalSubGoals(goal) ==
    CASE goal = "weight_loss" ->
           << <<"form_issues", <<"address", "form", "corrections">> >>,
              <<"equipment_available", <<"utilize", "available", "equipment">> >> >>
      [] goal = "muscle_gain" ->
           << <<"muscle_definition", <<"target", "specific", "muscle", "groups">> >>,
              <<"posture_issues", <<"address", "postural", "corrections">> >> >>
      [] goal = "cardio" ->
           << <<"current_fitness_level", <<"adjust", "intensity", "for", "level">> >>,
              <<"equipment_available", <<"optimize", "available", "equipment">> >> >>
      [] OTHER ->
           << <<"form_assessment", <<"improve", "exercise", "form">> >>,
              <<"mobility_issues", <<"address", "mobility", "limitations">> >>,
              <<"equipment_assessment", <<"adapt", "for", "equipment", "constraints">> >> >>

\* agentic_rag.py:285, 300, 315, 332, the pair of candidate strategies
PlanStrategies(goal) ==
    CASE goal = "weight_loss" -> <<BROAD_SEARCH, TARGETED_SEARCH>>
      [] goal = "muscle_gain" -> <<TARGETED_SEARCH, PROGRESSIVE_REFINEMENT>>
      [] goal = "cardio" -> <<BROAD_SEARCH, MULTI_ANGLE_APPROACH>>
      [] OTHER -> <<BROAD_SEARCH, PROGRESSIVE_REFINEMENT>>

\* agentic_rag.py:392-397, the four broad query terms of a goal
BroadTerms(goal) ==
    CASE goal = "weight_loss" ->
           << <<"cardio">>, <<"fat", "burning">>, <<"HIIT">>,
              <<"weight", "loss", "exercises">> >>
      [] goal = "muscle_gain" ->
           << <<"strength", "training">>, <<"muscle", "building">>,
              <<"hypertrophy">>, <<"resistance">> >>
      [] goal = "cardio" ->
           << <<"endurance">>, <<"cardiovascular">>, <<"aerobic">>,
              <<"cardio", "training">> >>
      [] goal = "strength" ->
           << <<"strength">>, <<"powerlifting">>, <<"resistance", "training">>,
              <<"strong">> >>
      [] OTHER ->
           << <<"fitness">>, <<"exercise">>, <<"workout">>, <<"training">> >>

\* agentic_rag.py:460-465, the three angle phrases of a goal
AngleSearches(goal) ==
    CASE goal = "weight_loss" ->
           << <<"beginner", "weight", "loss">>, <<"advanced", "fat", "burning">>,
              <<"cardio", "for", "weight", "loss">> >>
      [] goal = "muscle_gain" ->
           << <<"beginner", "muscle", "building">>, <<"advanced", "hypertrophy">>,
              <<"strength", "for", "muscle">> >>
      [] goal = "cardio" ->
           << <<"running", "cardio">>, <<"HIIT", "cardio">>,
              <<"low", "intensity", "cardio">> >>
      [] goal = "strength" ->
           << <<"powerlifting">>, <<"bodyweight", "strength">>,
              <<"dumbbell", "strength">> >>
      [] OTHER ->
           << <<"beginner", "fitness">>, <<"intermediate", "fitness">>,
              <<"advanced", "fitness">> >>

\* agentic_rag.py:428, the words whose "<word>_" occurrences str.replace removes
StrippedPrefixes == {"find", "identify", "locate", "discover"}

\* agentic_rag.py:428: every "find_", "identify_", "locate_", "discover_" is
\* removed (a word followed by "_"), then every "_" becomes a space
SearchTermOf(sub_goal) ==
    LET kept == {i \in 1..Len(sub_goal) :
                    ~(sub_goal[i] \in StrippedPrefixes /\ i < Len(sub_goal))}
        idx == [k \in 1..Cardinality(kept) |->
                    CHOOSE i \in kept : Cardinality({j \in kept : j < i}) = k - 1]
    IN  [k \in 1..Cardinality(kept) |-> sub_goal[idx[k]]]

(***************************************************************************)
(* Phase 0 and Phase 1: image analysis, user profile, strategic plan.      *)
(***************************************************************************)
\* what the vision collaborator does when it is called:
\*   "no_files" - no image path exists, nothing is sent (lines 171-181)
\*   "raise"    - the API call raises an exception whose message is text
\*   "text"     - the API call returns the (cleaned) text
ErrorPlain == [empty |-> FALSE, long |-> FALSE, has |-> {}]
ErrorFormat == [empty |-> FALSE, long |-> TRUE, has |-> {"form"}]
VisionRich ==
    [empty |-> FALSE, long |-> TRUE,
     has |-> {"form", "posture", "gym", "weight", "muscular", "mobility",
              "body fat", "muscle"}]
VisionBehaviours ==
    { [kind |-> "no_files", text |-> EmptyText],
      [kind |-> "raise", text |-> ErrorPlain],
      [kind |-> "raise", text |-> ErrorFormat],
      [kind |-> "text", text |-> VisionRich] }
NoVision == [kind |-> "no_files", text |-> EmptyText]

\* agentic_rag.py:239, f"Image analysis encountered an error: {str(e)}": a
\* non-empty text that contains what the exception message contains
ErrorText(msg) == [empty |-> FALSE, long |-> msg.long, has |-> msg.has]

\* agentic_rag.py:154-239
_analyze_images(has_images, ai_client, vision) ==
    IF ~has_images THEN EmptyText
    ELSE IF ~ai_client THEN EmptyText
    ELSE IF vision.kind = "no_files" THEN EmptyText
    ELSE IF vision.kind = "raise" THEN ErrorText(vision.text)
    ELSE vision.text

\* agentic_rag.py:718-759, the keys set in the returned dict
_extract_visual_insights(image_analysis) ==
    IF ~Truthy(image_analysis) THEN {}
    ELSE
      (IF ContainsAny(image_analysis, {"form", "posture", "alignment", "technique"})
         THEN {"form_issues", "form_assessment"} ELSE {})
      \cup
      (IF ContainsAny(image_analysis, {"dumbbell", "barbell", "machine", "gym",
                                       "weight", "kettlebell", "band"})
         THEN {"equipment_available", "equipment_assessment"} ELSE {})
      \cup
      (IF ContainsAny(image_analysis, {"muscular", "athletic", "beginner",
                                       "advanced", "experienced", "sedentary"})
         THEN {"current_fitness_level", "fitness_level_visual"} ELSE {})
      \cup
      (IF ContainsAny(image_analysis, {"flexibility", "mobility", "stiff",
                                       "range of motion", "tight"})
         THEN {"mobility_issues", "mobility_assessment"} ELSE {})
      \cup
      (IF ContainsAny(image_analysis, {"muscle definition", "body fat",
                                       "physique", "composition"})
         THEN {"muscle_definition", "body_composition"} ELSE {})
      \cup
      (IF ContainsAny(image_analysis, {"rounded shoulders", "forward head",
                                       "slouch", "posture"})
         THEN {"posture_issues", "postural_assessment"} ELSE {})

\* agentic_rag.py:241-262, the fields of the profile the loop reads
_analyze_user_profile(user_data, image_analysis) ==
    [primary_goal |-> user_data.agent_type,
     visual_assessment |-> _extract_visual_insights(image_analysis),
     image_analysis |-> image_analysis]

\* success criteria whose relevance threshold lies above the early-exit score
StricterCriteria ==
    [relevance_threshold |-> Rat(19, 20), coverage_target |-> Rat(8, 10),
     diversity_minimum |-> Rat(3, 1), practical_applicability |-> Rat(9, 10)]

\* agentic_rag.py:335-340
SuccessCriteria ==
    [relevance_threshold |-> Rat(7, 10), coverage_target |-> Rat(8, 10),
     diversity_minimum |-> Rat(3, 1), practical_applicability |-> Rat(9, 10)]

Min(a, b) == IF a < b THEN a ELSE b

\* a planner that appends every conditional sub-goal of the goal, whatever
\* the visual insights are
PlanAppendsAll(user_profile, max_iter) ==
    LET goal == user_profile.primary_goal
        cond == ConditionalSubGoals(goal)
        sub_goals == BaseSubGoals(goal) \o [k \in 1..Len(cond) |-> cond[k][2]]
    IN  [primary_goal |-> goal,
         sub_goals |-> sub_goals,
         search_strategies |-> PlanStrategies(goal),
         expected_iterations |-> Min(Len(sub_goals), max_iter),
         success_criteria |-> SuccessCriteria]

\* agentic_rag.py:264-348
_create_strategic_plan(user_profile, max_iter) ==
    LET goal == user_profile.primary_goal
        cond == ConditionalSubGoals(goal)
        flagged == {i \in 1..Len(cond) : cond[i][1] \in user_profile.visual_assessment}
        idx == [k \in 1..Cardinality(flagged) |->
                   CHOOSE i \in flagged : Cardinality({j \in flagged : j < i}) = k - 1]
        sub_goals == BaseSubGoals(goal)
                       \o [k \in 1..Cardinality(flagged) |-> cond[idx[k]][2]]
    IN  [primary_goal |-> goal,
         sub_goals |-> sub_goals,
         search_strategies |-> PlanStrategies(goal),
         expected_iterations |-> Min(Len(sub_goals), max_iter),
         success_criteria |-> SuccessCriteria]

(***************************************************************************)
(* The search collaborator (mcp_client.search_exercises_sync): a stub that *)
(* answers a query, always the same way, by raising or by returning a list *)
(* of hits.  A hit is a dict; has is the set of keys it carries.           *)
(***************************************************************************)
HitKeys == {"content", "score", "category", "muscle_groups", "difficulty"}

Hit(content, score, category, muscles, difficulty) ==
    [has |-> HitKeys, content |-> content, score |-> score,
     category |-> category, muscle_groups |-> muscles, difficulty |-> difficulty]

\* a hit that carries only its content
BareHit(content) ==
    [has |-> {"content"}, content |-> content, score |-> Zero,
     category |-> <<>>, muscle_groups |-> <<>>, difficulty |-> ""]

H1 == Hit("c1", One, <<"cardio">>, <<"legs", "core", "glutes", "calves">>, "advanced")
H2 == Hit("c2", One, <<"strength">>, <<"chest", "back", "arms", "shoulders">>,
          "intermediate")
H3 == Hit("c3", One, <<"mobility">>, <<"hips">>, "beginner")
H4 == BareHit("c4")
H5 == Hit("c5", Rat(1, 2), <<"basic", "cardio">>, <<"legs">>, "beginner")
H6 == Hit("c6", Rat(4, 5), <<"hiit">>, <<"legs">>, "advanced")
\* a hit that carries the search engine's raw ranking score
H7 == Hit("c7", Rat(5, 2), <<"strength">>, <<"back">>, "advanced")

\* dict.get(key, default)
HitGet(hit, key, default) == IF key \in hit.has THEN hit[key] ELSE default

Catalogues == {"empty", "bare", "rich", "moderate", "high", "raw"}

\* the hits a catalogue holds for the query with index i
CatalogueAnswer(cat, i) ==
    CASE cat = "empty" -> <<>>
      [] cat = "bare" -> <<H4, H4, H4, H4>>
      [] cat = "rich" ->
           (CASE i % 3 = 0 -> <<H1, H2, H3>>
              [] i % 3 = 1 -> <<H2, H3, H1>>
              [] OTHER -> <<H3, H1, H2>>)
      [] cat = "moderate" -> <<H6, H5>>
      [] cat = "raw" -> <<H7, H1>>
      [] OTHER -> <<H6>>

GoalOrder == <<"weight_loss", "muscle_gain", "cardio", "strength", "general">>

\* every sub-goal the planner can emit for a goal
AllSubGoals(goal) ==
    BaseSubGoals(goal)
      \o [k \in 1..Len(ConditionalSubGoals(goal)) |-> ConditionalSubGoals(goal)[k][2]]

TermsOfGoal(goal) ==
    BroadTerms(goal) \o AngleSearches(goal)
      \o [k \in 1..Len(AllSubGoals(goal)) |-> SearchTermOf(AllSubGoals(goal)[k])]

\* every query the strategies can issue
AllTerms == Flatten([k \in 1..Len(GoalOrder) |-> TermsOfGoal(GoalOrder[k])])

TermIndex(term) ==
    CHOOSE i \in 1..Len(AllTerms) :
        AllTerms[i] = term /\ \A j \in 1..(i - 1) : AllTerms[j] # term

SearchStubs == [mask : SUBSET (0..(MaskWidth - 1)), cat : Catalogues]

Raised == [raised |-> TRUE, hits |-> <<>>]
Returned(hits) == [raised |-> FALSE, hits |-> hits]

\* the stub's answer to a query: raises when the query's index falls in the
\* stub's failure mask, else returns the catalogue's hits
search_exercises_sync(stub, term, user_profile) ==
    LET i == TermIndex(term)
    IN  IF (i % MaskWidth) \in stub.mask THEN Raised
        ELSE Returned(CatalogueAnswer(stub.cat, i))

(***************************************************************************)
(* Retrieval strategies.  Each returns [results, calls]: the SearchResult  *)
(* list and the queries handed to the search collaborator, in order.       *)
(***************************************************************************)
Source(tag, arg) == [tag |-> tag, arg |-> arg]

\* agentic_rag.py:406-413, 435-442, 473-480
SearchResult(exercise, score0, source, type0, difficulty0) ==
    [content |-> HitGet(exercise, "content", ""),
     relevance_score |-> HitGet(exercise, "score", score0),
     source |-> source,
     exercise_type |-> HitGet(exercise, "category", type0),
     target_muscles |-> HitGet(exercise, "muscle_groups", <<>>),
     difficulty |-> HitGet(exercise, "difficulty", difficulty0)]

\* agentic_rag.py:401-415, one pass of the loop over search_terms
BroadQuery(stub, term, user_profile) ==
    LET answer == search_exercises_sync(stub, term, user_profile)
        top == Take(answer.hits, BroadTop)
    IN  IF answer.raised THEN <<>>
        ELSE [k \in 1..Len(top) |->
                SearchResult(top[k], Rat(1, 2), Source("azure_search", <<>>),
                             <<"general">>, "beginner")]

RECURSIVE UntilFirstRaise(_, _, _)
\* the queries of terms up to and including the first one that raises
UntilFirstRaise(stub, terms, user_profile) ==
    IF terms = <<>> THEN <<>>
    ELSE IF search_exercises_sync(stub, Head(terms), user_profile).raised
      THEN <<Head(terms)>>
    ELSE <<Head(terms)>> \o UntilFirstRaise(stub, Tail(terms), user_profile)

\* a broad search whose loop is left by the first query that raises
BroadSearchAbortsOnError(stub, plan, user_profile) ==
    LET search_terms == UntilFirstRaise(stub, BroadTerms(plan.primary_goal),
                                        user_profile)
    IN  [results |-> Flatten([k \in 1..Len(search_terms) |->
                                BroadQuery(stub, search_terms[k], user_profile)]),
         calls |-> search_terms]

\* agentic_rag.py:386-417
_execute_broad_search(stub, plan, user_profile) ==
    LET search_terms == BroadTerms(plan.primary_goal)
    IN  [results |-> Flatten([k \in 1..Len(search_terms) |->
                                BroadQuery(stub, search_terms[k], user_profile)]),
         calls |-> search_terms]

\* a targeted search that wraps the iteration index around the sub-goal list
TargetedWrapsAround(stub, plan, user_profile, iteration) ==
    LET search_term ==
          SearchTermOf(plan.sub_goals[(iteration % Len(plan.sub_goals)) + 1])
        answer == search_exercises_sync(stub, search_term, user_profile)
        top == Take(answer.hits, TargetedTop)
    IN  [results |->
           IF answer.raised THEN <<>>
           ELSE [k \in 1..Len(top) |->
                   SearchResult(top[k], Rat(3, 5),
                                Source("azure_search_targeted", <<>>),
                                <<"targeted">>, "intermediate")],
         calls |-> <<search_term>>]

\* agentic_rag.py:419-446
_execute_targeted_search(stub, plan, user_profile, iteration) ==
    IF iteration < Len(plan.sub_goals)
      THEN LET search_term == SearchTermOf(plan.sub_goals[iteration + 1])
               answer == search_exercises_sync(stub, search_term, user_profile)
               top == Take(answer.hits, TargetedTop)
           IN  [results |->
                  IF answer.raised THEN <<>>
                  ELSE [k \in 1..Len(top) |->
                          SearchResult(top[k], Rat(3, 5),
                                       Source("azure_search_targeted", <<>>),
                                       <<"targeted">>, "intermediate")],
                calls |-> <<search_term>>]
      ELSE [results |-> <<>>, calls |-> <<>>]

\* a refinement that delegates to the targeted search at index 1
RefinementAtIndexOne(stub, plan, user_profile) ==
    _execute_targeted_search(stub, plan, user_profile, 1)

\* agentic_rag.py:448-452
_execute_progressive_refinement(stub, plan, user_profile) ==
    _execute_targeted_search(stub, plan, user_profile, 0)

\* agentic_rag.py:467-482, one pass of the loop over angle_searches
AngleQuery(stub, angle, user_profile) ==
    LET answer == search_exercises_sync(stub, angle, user_profile)
        top == Take(answer.hits, BroadTop)
    IN  IF answer.raised THEN <<>>
        ELSE [k \in 1..Len(top) |->
                SearchResult(top[k], Rat(11, 20), Source("azure_search_angle", angle),
                             <<"multi_angle">>, "varied")]

\* agentic_rag.py:454-484
_execute_multi_angle_search(stub, plan, user_profile) ==
    LET angle_searches == AngleSearches(plan.primary_goal)
    IN  [results |-> Flatten([k \in 1..Len(angle_searches) |->
                                AngleQuery(stub, angle_searches[k], user_profile)]),
         calls |-> angle_searches]

\* agentic_rag.py:371-384
_execute_strategic_search(stub, strategy, plan, user_profile, iteration) ==
    CASE strategy = BROAD_SEARCH -> _execute_broad_search(stub, plan, user_profile)
      [] strategy = TARGETED_SEARCH ->
           _execute_targeted_search(stub, plan, user_profile, iteration)
      [] strategy = PROGRESSIVE_REFINEMENT ->
           _execute_progressive_refinement(stub, plan, user_profile)
      [] strategy = MULTI_ANGLE_APPROACH ->
           _execute_multi_angle_search(stub, plan, user_profile)
      [] OTHER -> [results |-> <<>>, calls |-> <<>>]

(***************************************************************************)
(* Quality scorer, strategy selector, stop decision.                       *)
(***************************************************************************)
\* dict.get(key, default) on a dict modelled as a function
DictGet(dict, key, default) == IF key \in DOMAIN dict THEN dict[key] ELSE default

Scores(results) == [k \in 1..Len(results) |-> results[k].relevance_score]
Mean(results) == RMul(RSum(Scores(results)), Rat(1, Len(results)))
ExerciseTypes(results) == {results[k].exercise_type : k \in 1..Len(results)}
Muscles(results) == UNION {Range(results[k].target_muscles) : k \in 1..Len(results)}
Difficulties(results) == {results[k].difficulty : k \in 1..Len(results)}

\* a scorer without the early return for an empty batch: relevance 0, the
\* other metrics computed from the accumulated results
AssessWithoutEmptyCase(new_results, plan, all_results) ==
    LET avg_relevance == IF new_results = <<>> THEN Zero ELSE Mean(new_results)
        both == all_results \o new_results
        coverage == RMin(Rat(Cardinality(ExerciseTypes(both)),
                             Len(plan.sub_goals)), One)
        diversity == RMin(Rat(Cardinality(Muscles(both))
                                + Cardinality(Difficulties(both)), 10), One)
        overall_score == RAdd(RMul(avg_relevance, Rat(4, 10)),
                              RAdd(RMul(coverage, Rat(3, 10)),
                                   RMul(diversity, Rat(3, 10))))
    IN  [overall_score |-> overall_score,
         relevance |-> avg_relevance,
         coverage |-> coverage,
         diversity |-> diversity,
         meets_criteria |->
           RGe(overall_score,
               DictGet(plan.success_criteria, "relevance_threshold", Rat(7, 10)))]

\* a scorer whose coverage and diversity are the bare quotients
AssessWithoutClamp(new_results, plan, all_results) ==
    IF new_results = <<>>
      THEN [overall_score |-> Zero, relevance |-> Zero, coverage |-> Zero,
            diversity |-> Zero]
      ELSE LET both == all_results \o new_results
               avg_relevance == Mean(new_results)
               coverage ==
                 Rat(Cardinality(ExerciseTypes(both)),
                      Len(plan.sub_goals))
               diversity ==
                 Rat(Cardinality(Muscles(both))
                         + Cardinality(Difficulties(both)), 10)
               overall_score == RAdd(RMul(avg_relevance, Rat(4, 10)),
                                     RAdd(RMul(coverage, Rat(3, 10)),
                                          RMul(diversity, Rat(3, 10))))
           IN  [overall_score |-> overall_score,
                relevance |-> avg_relevance,
                coverage |-> coverage,
                diversity |-> diversity,
                meets_criteria |->
                  RGe(overall_score,
                      DictGet(plan.success_criteria, "relevance_threshold", Rat(7, 10)))]

\* a scorer whose coverage counts the exercise types of the new results only
AssessCoverageOfBatch(new_results, plan, all_results) ==
    IF new_results = <<>>
      THEN [overall_score |-> Zero, relevance |-> Zero, coverage |-> Zero,
            diversity |-> Zero]
      ELSE LET both == all_results \o new_results
               avg_relevance == Mean(new_results)
               coverage ==
                 RMin(Rat(Cardinality(ExerciseTypes(new_results)),
                      Len(plan.sub_goals)), One)
               diversity ==
                 RMin(Rat(Cardinality(Muscles(both))
                         + Cardinality(Difficulties(both)), 10), One)
               overall_score == RAdd(RMul(avg_relevance, Rat(4, 10)),
                                     RAdd(RMul(coverage, Rat(3, 10)),
                                          RMul(diversity, Rat(3, 10))))
           IN  [overall_score |-> overall_score,
                relevance |-> avg_relevance,
                coverage |-> coverage,
                diversity |-> diversity,
                meets_criteria |->
                  RGe(overall_score,
                      DictGet(plan.success_criteria, "relevance_threshold", Rat(7, 10)))]

\* a scorer whose relevance is the mean over all accumulated results
AssessRelevanceOfAll(new_results, plan, all_results) ==
    IF new_results = <<>>
      THEN [overall_score |-> Zero, relevance |-> Zero, coverage |-> Zero,
            diversity |-> Zero]
      ELSE LET both == all_results \o new_results
               avg_relevance == Mean(both)
               coverage ==
                 RMin(Rat(Cardinality(ExerciseTypes(both)),
                      Len(plan.sub_goals)), One)
               diversity ==
                 RMin(Rat(Cardinality(Muscles(both))
                         + Cardinality(Difficulties(both)), 10), One)
               overall_score == RAdd(RMul(avg_relevance, Rat(4, 10)),
                                     RAdd(RMul(coverage, Rat(3, 10)),
                                          RMul(diversity, Rat(3, 10))))
           IN  [overall_score |-> overall_score,
                relevance |-> avg_relevance,
                coverage |-> coverage,
                diversity |-> diversity,
                meets_criteria |->
                  RGe(overall_score,
                      DictGet(plan.success_criteria, "relevance_threshold", Rat(7, 10)))]

\* agentic_rag.py:486-518
_assess_result_quality(new_results, plan, all_results) ==
    IF new_results = <<>>
      THEN [overall_score |-> Zero, relevance |-> Zero, coverage |-> Zero,
            diversity |-> Zero]
      ELSE LET avg_relevance == Mean(new_results)
               both == all_results \o new_results
               coverage == RMin(Rat(Cardinality(ExerciseTypes(both)),
                                    Len(plan.sub_goals)), One)
               diversity == RMin(Rat(Cardinality(Muscles(both))
                                       + Cardinality(Difficulties(both)), 10), One)
               overall_score == RAdd(RMul(avg_relevance, Rat(4, 10)),
                                     RAdd(RMul(coverage, Rat(3, 10)),
                                          RMul(diversity, Rat(3, 10))))
           IN  [overall_score |-> overall_score,
                relevance |-> avg_relevance,
                coverage |-> coverage,
                diversity |-> diversity,
                meets_criteria |->
                  RGe(overall_score,
                      DictGet(plan.success_criteria, "relevance_threshold", Rat(7, 10)))]

GeneralTerms == {"general", "basic", "beginner", "simple"}

\* agentic_rag.py:761-765
_results_lack_specificity(results) ==
    LET general_count ==
          Cardinality({k \in 1..Len(results) :
                          Range(results[k].exercise_type) \cap GeneralTerms # {}})
    IN  general_count * 10 > Len(results) * 7

\* agentic_rag.py:767-770
_results_need_refinement(results) ==
    LET avg_score == IF results # <<>> THEN Mean(results) ELSE Zero
    IN  RLt(Rat(4, 10), avg_score) /\ RLt(avg_score, Rat(7, 10))

\* a selector that starts from the strategy learned last when the memory
\* is not empty
SelectRememberedFirst(plan, current_results, iteration, memory) ==
    IF iteration = 0
      THEN (IF memory # <<>> THEN memory[Len(memory)].key ELSE BROAD_SEARCH)
    ELSE IF Len(current_results) < MinResults THEN MULTI_ANGLE_APPROACH
    ELSE IF _results_lack_specificity(current_results) THEN TARGETED_SEARCH
    ELSE IF _results_need_refinement(current_results) THEN PROGRESSIVE_REFINEMENT
    ELSE plan.search_strategies[(iteration % Len(plan.search_strategies)) + 1]

\* a selector that, after the first iteration, returns the strategy the memory
\* learned first when the memory is not empty
SelectLearnedLater(plan, current_results, iteration, memory) ==
    IF iteration = 0 THEN BROAD_SEARCH
    ELSE IF memory # <<>> THEN memory[1].key
    ELSE IF Len(current_results) < MinResults THEN MULTI_ANGLE_APPROACH
    ELSE IF _results_lack_specificity(current_results) THEN TARGETED_SEARCH
    ELSE IF _results_need_refinement(current_results) THEN PROGRESSIVE_REFINEMENT
    ELSE plan.search_strategies[(iteration % Len(plan.search_strategies)) + 1]

\* a selector without the rule for fewer than 3 cumulative results
SelectWithoutCountRule(plan, current_results, iteration, memory) ==
    IF iteration = 0 THEN BROAD_SEARCH
    ELSE IF _results_lack_specificity(current_results) THEN TARGETED_SEARCH
    ELSE IF _results_need_refinement(current_results) THEN PROGRESSIVE_REFINEMENT
    ELSE plan.search_strategies[(iteration % Len(plan.search_strategies)) + 1]

\* a selector that tests the need for refinement before the lack of
\* specificity
SelectRefinementFirst(plan, current_results, iteration, memory) ==
    IF iteration = 0 THEN BROAD_SEARCH
    ELSE IF Len(current_results) < MinResults THEN MULTI_ANGLE_APPROACH
    ELSE IF _results_need_refinement(current_results) THEN PROGRESSIVE_REFINEMENT
    ELSE IF _results_lack_specificity(current_results) THEN TARGETED_SEARCH
    ELSE plan.search_strategies[(iteration % Len(plan.search_strategies)) + 1]

\* a selector that tests the result count before the iteration index
SelectCountFirst(plan, current_results, iteration, memory) ==
    IF Len(current_results) < MinResults THEN MULTI_ANGLE_APPROACH
    ELSE IF iteration = 0 THEN BROAD_SEARCH
    ELSE IF _results_lack_specificity(current_results) THEN TARGETED_SEARCH
    ELSE IF _results_need_refinement(current_results) THEN PROGRESSIVE_REFINEMENT
    ELSE plan.search_strategies[(iteration % Len(plan.search_strategies)) + 1]

\* agentic_rag.py:350-369; memory stands for self.successful_strategies,
\* which the method can read
_select_optimal_strategy(plan, current_results, iteration, memory) ==
    IF iteration = 0 THEN BROAD_SEARCH
    ELSE IF Len(current_results) < MinResults THEN MULTI_ANGLE_APPROACH
    ELSE IF _results_lack_specificity(current_results) THEN TARGETED_SEARCH
    ELSE IF _results_need_refinement(current_results) THEN PROGRESSIVE_REFINEMENT
    ELSE plan.search_strategies[(iteration % Len(plan.search_strategies)) + 1]

\* a stop decision that leaves out the meets_criteria test
ShouldStopIgnoringCriteria(quality_assessment, plan, iteration, max_iter) ==
    IF iteration >= max_iter - 1 THEN TRUE
    ELSE IF RGe(DictGet(quality_assessment, "overall_score", Zero), Rat(9, 10)) THEN TRUE
    ELSE FALSE

\* a stop decision that reads a missing meets_criteria as True
ShouldStopDefaultTrue(quality_assessment, plan, iteration, max_iter) ==
    IF DictGet(quality_assessment, "meets_criteria", TRUE) THEN TRUE
    ELSE IF iteration >= max_iter - 1 THEN TRUE
    ELSE IF RGe(DictGet(quality_assessment, "overall_score", Zero), Rat(9, 10)) THEN TRUE
    ELSE FALSE

\* agentic_rag.py:520-535
_should_stop_searching(quality_assessment, plan, iteration, max_iter) ==
    IF DictGet(quality_assessment, "meets_criteria", FALSE) THEN TRUE
    ELSE IF iteration >= max_iter - 1 THEN TRUE
    ELSE IF RGe(DictGet(quality_assessment, "overall_score", Zero), Rat(9, 10)) THEN TRUE
    ELSE FALSE

\* a loop over range(self.max_iterations + 1)
RangeOneMore(iteration, max_iter) == iteration + 1 < max_iter + 1

\* agentic_rag.py:101, "for iteration in range(self.max_iterations)": whether
\* the range holds the index that follows iteration
RangeHasNext(iteration, max_iter) == iteration + 1 < max_iter

(***************************************************************************)
(* Memory: self.successful_strategies, a dict in insertion order, modelled *)
(* as a sequence of [key, entries].                                        *)
(***************************************************************************)
MemKeys(memory) == {memory[k].key : k \in 1..Len(memory)}
MemEntries(memory, key) ==
    IF key \in MemKeys(memory)
      THEN memory[CHOOSE k \in 1..Len(memory) : memory[k].key = key].entries
      ELSE <<>>

\* agentic_rag.py:545-549
MemoryEntry(results, quality) ==
    [quality_score |-> DictGet(quality, "overall_score", Zero),
     result_count |-> Len(results),
     timestamp |-> "current"]

\* a window that keeps the oldest entries, entries[:10]
WindowKeepsOldest(entries) ==
    IF Len(entries) > MemoryWindow THEN Take(entries, MemoryWindow) ELSE entries

\* agentic_rag.py:551-553
SlidingWindow(entries) ==
    IF Len(entries) > MemoryWindow THEN LastN(entries, MemoryWindow) ELSE entries

\* agentic_rag.py:537-553
_update_agent_memory(memory, strategy, results, quality) ==
    LET strategy_key == strategy
        keyed == IF strategy_key \in MemKeys(memory) THEN memory
                 ELSE Append(memory, [key |-> strategy_key, entries |-> <<>>])
    IN  [k \in 1..Len(keyed) |->
           IF keyed[k].key = strategy_key
             THEN [key |-> strategy_key,
                   entries |-> SlidingWindow(Append(keyed[k].entries,
                                                    MemoryEntry(results, quality)))]
             ELSE keyed[k]]

(***************************************************************************)
(* Synthesizer and reflection.                                             *)
(***************************************************************************)
\* mcp_client.get_azure_search_enhanced_fallback_sync: returns a dict that
\* holds the baseline recommendation, or raises
BaselineText == "baseline recommendation"
BaselineBehaviours ==
    { [raised |-> FALSE, dict |-> [recommendation |-> BaselineText]],
      [raised |-> TRUE, dict |-> [recommendation |-> ""]] }

RECURSIVE SumQuality(_)
SumQuality(entries) ==
    IF entries = <<>> THEN Zero
    ELSE RAdd(Head(entries).quality_score, SumQuality(Tail(entries)))

\* agentic_rag.py:772-779; max() keeps the first of several maximal keys
_analyze_successful_strategies(memory) ==
    IF memory = <<>> THEN [initial |-> TRUE, best_strategy |-> NoStrategy]
    ELSE LET best == CHOOSE k \in 1..Len(memory) :
                       /\ \A j \in 1..Len(memory) :
                            RGe(SumQuality(memory[k].entries),
                                SumQuality(memory[j].entries))
                       /\ \A j \in 1..(k - 1) :
                            RLt(SumQuality(memory[j].entries),
                                SumQuality(memory[k].entries))
         IN  [initial |-> FALSE, best_strategy |-> memory[best].key]

\* agentic_rag.py:866-875
_create_progressive_plan(plan, results) ==
    LET difficulties == Difficulties(results)
    IN  IF "beginner" \in difficulties /\ "advanced" \in difficulties
          THEN "Week 1-2: Focus on beginner exercises."
        ELSE IF "beginner" \in difficulties
          THEN "Start with foundational movements"
        ELSE "Continue with current intensity"

\* agentic_rag.py:877-890
_calculate_final_quality_metrics(results, plan) ==
    IF results = <<>>
      THEN [overall_quality |-> Zero, goal_coverage |-> Zero, confidence |-> Zero]
      ELSE LET overall_quality == Mean(results)
               goal_coverage == RMin(Rat(Cardinality(ExerciseTypes(results)),
                                         Len(plan.sub_goals)), One)
           IN  [overall_quality |-> overall_quality,
                goal_coverage |-> goal_coverage,
                confidence |-> RAdd(RMul(overall_quality, Rat(6, 10)),
                                    RMul(goal_coverage, Rat(4, 10)))]

\* a synthesizer whose text is built from the enhancements alone
SynthesizeWithoutBase(search_results, plan, memory, base_recommendation) ==
    LET agentic_enhancements ==
          [search_strategy_analysis |-> _analyze_successful_strategies(memory),
           progressive_recommendations |-> _create_progressive_plan(plan, search_results),
           quality_metrics |-> _calculate_final_quality_metrics(search_results, plan)]
        enhanced_content ==
          [base |-> "",
           progressive |-> agentic_enhancements.progressive_recommendations,
           quality |-> agentic_enhancements.quality_metrics,
           iterations |-> Len(search_results)]
    IN  [recommendation |-> enhanced_content,
         agentic_metadata |-> agentic_enhancements,
         search_results_used |-> Len(search_results),
         agent_confidence |-> agentic_enhancements.quality_metrics.confidence]

\* agentic_rag.py:555-632, given the dict the baseline collaborator returned
_synthesize_agentic_recommendation(search_results, plan, memory, base_recommendation) ==
    LET agentic_enhancements ==
          [search_strategy_analysis |-> _analyze_successful_strategies(memory),
           progressive_recommendations |-> _create_progressive_plan(plan, search_results),
           quality_metrics |-> _calculate_final_quality_metrics(search_results, plan)]
        final_recommendation == DictGet(base_recommendation, "recommendation", "")
        enhanced_content ==
          [base |-> final_recommendation,
           progressive |-> agentic_enhancements.progressive_recommendations,
           quality |-> agentic_enhancements.quality_metrics,
           iterations |-> Len(search_results)]
    IN  [recommendation |-> enhanced_content,
         agentic_metadata |-> agentic_enhancements,
         search_results_used |-> Len(search_results),
         agent_confidence |-> agentic_enhancements.quality_metrics.confidence]

Sources(results) == {results[k].source : k \in 1..Len(results)}

\* agentic_rag.py:634-643
_generate_reflection_insights(plan, search_results) ==
    [planning_effectiveness |-> Len(search_results) <= plan.expected_iterations,
     goal_achievement |->
       Cardinality(ExerciseTypes(search_results)) * 10 >= Len(plan.sub_goals) * 7,
     search_efficiency |->
       IF search_results # <<>> THEN Mean(search_results) ELSE Zero,
     strategy_adaptation |-> Cardinality(Sources(search_results)) > 1]

\* dict.update / item assignment on a dict modelled as a function
DictUpdate(dict, more) ==
    [k \in DOMAIN dict \cup DOMAIN more |-> IF k \in DOMAIN more THEN more[k] ELSE dict[k]]

\* agentic_rag.py:135-149
AddMetadata(final_recommendation, reflection, plan, search_results, strategy) ==
    LET reflected ==
          IF reflection
            THEN DictUpdate(final_recommendation,
                            [agentic_insights |->
                               _generate_reflection_insights(plan, search_results)])
            ELSE final_recommendation
    IN  DictUpdate(reflected,
                   [agentic_rag |-> TRUE,
                    agent_plan |-> plan,
                    iterations_used |-> Len(search_results),
                    strategies_employed |->
                      IF strategy # NoStrategy THEN <<strategy>> ELSE <<>>,
                    enhanced_with_intelligence |-> TRUE])

(***************************************************************************)
(* State.                                                                  *)
(***************************************************************************)
VARIABLES
    \* the controller instance (agentic_rag.py:55-64)
    max_iterations, reflection_mode, search_client, ai_client,
    successful_strategies,
    \* the vision collaborator's behaviour and the request's inputs
    vision, user_data, images,
    \* position in generate_recommendation and its locals
    pc, image_analysis, user_profile, agent_plan, search_results,
    current_strategy, iteration, iteration_results, quality_assessment,
    final_recommendation,
    \* history: number of the request, what it did in order, the strategy
    \* selected in each iteration, why a request raised, the summaries of the
    \* finished requests, every entry ever added to the memory per strategy
    request, events, strategies_log, raised_by, completed, mem_history,
    \* argument and result of a direct call of one method
    probe

controller == <<max_iterations, reflection_mode, search_client, ai_client>>
inputs == <<vision, user_data, images>>
locals == <<image_analysis, user_profile, agent_plan, search_results,
            current_strategy, iteration, iteration_results, quality_assessment,
            final_recommendation>>
history == <<request, events, strategies_log, raised_by, completed>>
vars == <<controller, successful_strategies, inputs, pc, locals, history,
          mem_history, probe>>

NoProfile == [primary_goal |-> "", visual_assessment |-> {}, image_analysis |-> EmptyText]
NoPlan ==
    [primary_goal |-> "", sub_goals |-> <<>>, search_strategies |-> <<>>,
     expected_iterations |-> 0, success_criteria |-> SuccessCriteria]
NoQuality == <<>>
NoRecommendation == <<>>
NoProbe == [op |-> "none"]
NoHistory == [s \in AgentStrategy |-> <<>>]

Event(name) == [ev |-> name, iteration |-> iteration]
\* the event of an iteration's assessment, with the assessment made
AssessEvent(quality) == [ev |-> "assess", iteration |-> iteration, quality |-> quality]

RECURSIVE AssessmentsOf(_)
\* the assessments made in a request, in iteration order
AssessmentsOf(evs) ==
    IF evs = <<>> THEN <<>>
    ELSE (IF Head(evs).ev = "assess" THEN <<Head(evs).quality>> ELSE <<>>)
           \o AssessmentsOf(Tail(evs))

\* the locals of generate_recommendation before its first statement
FreshLocals ==
    /\ image_analysis = EmptyText
    /\ user_profile = NoProfile
    /\ agent_plan = NoPlan
    /\ search_results = <<>>
    /\ current_strategy = NoStrategy
    /\ iteration = -1
    /\ iteration_results = <<>>
    /\ quality_assessment = NoQuality
    /\ final_recommendation = NoRecommendation

\* agentic_rag.py:55-66: a constructed controller, its memory empty, and a
\* first request about to be served
Constructed ==
    /\ max_iterations \in -1..MaxIterCap
    /\ reflection_mode \in BOOLEAN
    /\ search_client \in SearchStubs
    /\ ai_client \in BOOLEAN
    /\ successful_strategies = <<>>
    /\ images \in BOOLEAN
    /\ vision \in VisionBehaviours
    /\ (images /\ ai_client) \/ vision = NoVision
    /\ user_data \in [agent_type : Goals]
    /\ pc = "START"
    /\ FreshLocals
    /\ request = 1
    /\ events = <<>>
    /\ strategies_log = <<>>
    /\ raised_by = "none"
    /\ completed = <<>>
    /\ mem_history = NoHistory

Init == Constructed /\ probe = NoProbe

(***************************************************************************)
(* generate_recommendation, statement by statement.                        *)
(***************************************************************************)
\* agentic_rag.py:83-90, Phase 0
AnalyzeImages ==
    /\ pc = "START"
    /\ image_analysis' = IF images THEN _analyze_images(images, ai_client, vision)
                         ELSE EmptyText
    /\ pc' = "PLANNING"
    /\ events' = Append(events, Event("analyze_images"))
    /\ UNCHANGED <<controller, successful_strategies, inputs, user_profile,
                   agent_plan, search_results, current_strategy, iteration,
                   iteration_results, quality_assessment, final_recommendation,
                   request, strategies_log, raised_by, completed, mem_history, probe>>

\* agentic_rag.py:91-99, Phase 1
Plan ==
    /\ pc = "PLANNING"
    /\ user_profile' = _analyze_user_profile(user_data, image_analysis)
    /\ agent_plan' = _create_strategic_plan(user_profile', max_iterations)
    /\ search_results' = <<>>
    /\ current_strategy' = NoStrategy
    /\ pc' = "LOOP"
    /\ events' = Append(events, Event("plan"))
    /\ UNCHANGED <<controller, successful_strategies, inputs, image_analysis,
                   iteration, iteration_results, quality_assessment,
                   final_recommendation, request, strategies_log, raised_by,
                   completed, mem_history, probe>>

\* a loop head that runs the same index again after an iteration that brought
\* no new results
LoopHeadRetriesEmpty ==
    /\ pc = "LOOP"
    /\ IF RangeHasNext(iteration, max_iterations)
         THEN /\ iteration' = IF iteration >= 0 /\ iteration_results = <<>>
                                THEN iteration ELSE iteration + 1
              /\ pc' = "SELECT"
         ELSE iteration' = iteration /\ pc' = "SYNTHESIZING"
    /\ UNCHANGED <<controller, successful_strategies, inputs, image_analysis,
                   user_profile, agent_plan, search_results, current_strategy,
                   iteration_results, quality_assessment, final_recommendation,
                   history, mem_history, probe>>

\* agentic_rag.py:101, the head of the for loop
LoopHead ==
    /\ pc = "LOOP"
    /\ IF RangeHasNext(iteration, max_iterations)
         THEN iteration' = iteration + 1 /\ pc' = "SELECT"
         ELSE iteration' = iteration /\ pc' = "SYNTHESIZING"
    /\ UNCHANGED <<controller, successful_strategies, inputs, image_analysis,
                   user_profile, agent_plan, search_results, current_strategy,
                   iteration_results, quality_assessment, final_recommendation,
                   history, mem_history, probe>>

\* agentic_rag.py:105
SelectStrategy ==
    /\ pc = "SELECT"
    /\ current_strategy' = _select_optimal_strategy(agent_plan, search_results,
                                                    iteration, successful_strategies)
    /\ strategies_log' = Append(strategies_log, current_strategy')
    /\ events' = Append(events, Event("select"))
    /\ pc' = "SEARCH"
    /\ UNCHANGED <<controller, successful_strategies, inputs, image_analysis,
                   user_profile, agent_plan, search_results, iteration,
                   iteration_results, quality_assessment, final_recommendation,
                   request, raised_by, completed, mem_history, probe>>

\* agentic_rag.py:109-111
ExecuteSearch ==
    /\ pc = "SEARCH"
    /\ iteration_results' =
         _execute_strategic_search(search_client, current_strategy, agent_plan,
                                   user_profile, iteration).results
    /\ events' = Append(events, Event("search"))
    /\ pc' = "ASSESS"
    /\ UNCHANGED <<controller, successful_strategies, inputs, image_analysis,
                   user_profile, agent_plan, search_results, current_strategy,
                   iteration, quality_assessment, final_recommendation,
                   request, strategies_log, raised_by, completed, mem_history, probe>>

\* agentic_rag.py:114-116
AssessQuality ==
    /\ pc = "ASSESS"
    /\ quality_assessment' =
         _assess_result_quality(iteration_results, agent_plan, search_results)
    /\ events' = Append(events, AssessEvent(quality_assessment'))
    /\ pc' = "EXTEND"
    /\ UNCHANGED <<controller, successful_strategies, inputs, image_analysis,
                   user_profile, agent_plan, search_results, current_strategy,
                   iteration, iteration_results, final_recommendation,
                   request, strategies_log, raised_by, completed, mem_history, probe>>

\* an assignment in place of the extend
ExtendReplaces(all_results, new_results) == new_results

\* agentic_rag.py:118, list.extend
Extend(all_results, new_results) == all_results \o new_results

ExtendResults ==
    /\ pc = "EXTEND"
    /\ search_results' = Extend(search_results, iteration_results)
    /\ events' = Append(events, Event("extend"))
    /\ pc' = "STOPCHECK"
    /\ UNCHANGED <<controller, successful_strategies, inputs, image_analysis,
                   user_profile, agent_plan, current_strategy, iteration,
                   iteration_results, quality_assessment, final_recommendation,
                   request, strategies_log, raised_by, completed, mem_history, probe>>

\* a stop check that records the iteration in the memory before it leaves
\* the loop
StopCheckRecordsLast ==
    /\ pc = "STOPCHECK"
    /\ IF _should_stop_searching(quality_assessment, agent_plan, iteration,
                                 max_iterations)
         THEN /\ pc' = "SYNTHESIZING"
              /\ events' = Append(events, Event("stop"))
              /\ successful_strategies' =
                   _update_agent_memory(successful_strategies, current_strategy,
                                        iteration_results, quality_assessment)
              /\ mem_history' =
                   [mem_history EXCEPT ![current_strategy] =
                      Append(@, MemoryEntry(iteration_results, quality_assessment))]
         ELSE /\ pc' = "MEMORY"
              /\ events' = Append(events, Event("continue"))
              /\ UNCHANGED <<successful_strategies, mem_history>>
    /\ UNCHANGED <<controller, inputs, locals, request, strategies_log, raised_by,
                   completed, probe>>

\* agentic_rag.py:123-125
StopCheck ==
    /\ pc = "STOPCHECK"
    /\ IF _should_stop_searching(quality_assessment, agent_plan, iteration,
                                 max_iterations)
         THEN pc' = "SYNTHESIZING" /\ events' = Append(events, Event("stop"))
         ELSE pc' = "MEMORY" /\ events' = Append(events, Event("continue"))
    /\ UNCHANGED <<controller, successful_strategies, inputs, locals, request,
                   strategies_log, raised_by, completed, mem_history, probe>>

\* agentic_rag.py:128
UpdateMemory ==
    /\ pc = "MEMORY"
    /\ successful_strategies' =
         _update_agent_memory(successful_strategies, current_strategy,
                              iteration_results, quality_assessment)
    /\ mem_history' =
         [mem_history EXCEPT ![current_strategy] =
            Append(@, MemoryEntry(iteration_results, quality_assessment))]
    /\ events' = Append(events, Event("memory"))
    /\ pc' = "LOOP"
    /\ UNCHANGED <<controller, inputs, locals, request, strategies_log,
                   raised_by, completed, probe>>

\* agentic_rag.py:131-133, Phase 3; an exception of the baseline collaborator
\* is not caught and leaves generate_recommendation
Synthesize ==
    /\ pc = "SYNTHESIZING"
    /\ \E baseline \in BaselineBehaviours :
         IF baseline.raised
           THEN /\ pc' = "RAISED"
                /\ raised_by' = "baseline"
                /\ final_recommendation' = final_recommendation
           ELSE /\ pc' = "REFLECTING"
                /\ raised_by' = raised_by
                /\ final_recommendation' =
                     _synthesize_agentic_recommendation(
                         search_results, agent_plan, successful_strategies,
                         baseline.dict)
    /\ events' = Append(events, Event("synthesize"))
    /\ UNCHANGED <<controller, successful_strategies, inputs, image_analysis,
                   user_profile, agent_plan, search_results, current_strategy,
                   iteration, iteration_results, quality_assessment,
                   request, strategies_log, completed, mem_history, probe>>

Summary ==
    [plan |-> agent_plan,
     strategies |-> strategies_log,
     quality_metrics |-> final_recommendation.agentic_metadata.quality_metrics,
     iterations |-> Len(strategies_log),
     assessments |-> AssessmentsOf(events),
     stopped_at |-> iteration,
     commentary |-> final_recommendation.agentic_metadata.search_strategy_analysis]

\* agentic_rag.py:135-152, Phase 4, the metadata and the return
Finish ==
    /\ pc = "REFLECTING"
    /\ final_recommendation' =
         AddMetadata(final_recommendation, reflection_mode, agent_plan,
                     search_results, current_strategy)
    /\ completed' = Append(completed, Summary)
    /\ events' = Append(events, Event("done"))
    /\ pc' = "DONE"
    /\ UNCHANGED <<controller, successful_strategies, inputs, image_analysis,
                   user_profile, agent_plan, search_results, current_strategy,
                   iteration, iteration_results, quality_assessment,
                   request, strategies_log, raised_by, mem_history, probe>>

\* the caller runs generate_recommendation again on the same controller
\* instance, with the same inputs and the same collaborators
NewRequest ==
    /\ pc \in {"DONE", "RAISED"}
    /\ request < MaxRequests
    /\ request' = request + 1
    /\ pc' = "START"
    /\ image_analysis' = EmptyText
    /\ user_profile' = NoProfile
    /\ agent_plan' = NoPlan
    /\ search_results' = <<>>
    /\ current_strategy' = NoStrategy
    /\ iteration' = -1
    /\ iteration_results' = <<>>
    /\ quality_assessment' = NoQuality
    /\ final_recommendation' = NoRecommendation
    /\ events' = <<>>
    /\ strategies_log' = <<>>
    /\ raised_by' = "none"
    /\ UNCHANGED <<controller, successful_strategies, inputs, completed,
                   mem_history, probe>>

Next ==
    \/ AnalyzeImages
    \/ Plan
    \/ LoopHead
    \/ SelectStrategy
    \/ ExecuteSearch
    \/ AssessQuality
    \/ ExtendResults
    \/ StopCheck
    \/ UpdateMemory
    \/ Synthesize
    \/ Finish

\* one request on a freshly constructed controller
Spec == Init /\ [][Next]_vars

\* the positions of generate_recommendation, and those at which it has
\* returned or raised
Positions ==
    {"START", "PLANNING", "LOOP", "SELECT", "SEARCH", "ASSESS", "EXTEND",
     "STOPCHECK", "MEMORY", "SYNTHESIZING", "REFLECTING", "DONE", "RAISED"}
Exits == {"DONE", "RAISED"}

\* the statement at the current position completes
Advance == pc \notin Exits /\ pc' \in Positions /\ pc' # pc

\* generate_recommendation is sequential code: its next statement is always
\* executed, and an awaited collaborator call returns or raises. Every step of
\* Next changes pc and Next is enabled at every position outside Exits, so
\* this is weak fairness of Next
FairSpec == Spec /\ WF_pc(Advance)

(***************************************************************************)
(* Re-running the loop on the same controller instance: the default        *)
(* reflection mode, a request without images or with a described image.    *)
(***************************************************************************)
InitRerun ==
    /\ Init
    /\ reflection_mode
    /\ images = ai_client
    /\ vision \in {NoVision, [kind |-> "text", text |-> VisionRich]}

NextRerun == Next \/ NewRequest

SpecRerun == InitRerun /\ [][NextRerun]_vars

(***************************************************************************)
(* Direct calls of _update_agent_memory on a constructed controller: the   *)
(* k-th call records a result list and a quality that identify it.         *)
(***************************************************************************)
MemoryStrategies == {BROAD_SEARCH, MULTI_ANGLE_APPROACH}

Updates == Len(mem_history[BROAD_SEARCH]) + Len(mem_history[MULTI_ANGLE_APPROACH])

\* the arguments of the k-th call
StampResults(k) == [j \in 1..(k % 4) |-> SearchResult(H4, Rat(1, 2),
                                                       Source("azure_search", <<>>),
                                                       <<"general">>, "beginner")]
StampQuality(k) ==
    [overall_score |-> Rat(k % 7, 10), relevance |-> Zero, coverage |-> Zero,
     diversity |-> Zero, meets_criteria |-> FALSE]

\* a controller constructed with the default configuration, serving nothing
IdleController ==
    /\ Constructed
    /\ max_iterations = 3
    /\ reflection_mode
    /\ search_client = [mask |-> {}, cat |-> "empty"]
    /\ ~ai_client
    /\ ~images
    /\ user_data = [agent_type |-> "general"]

InitMemory == IdleController /\ probe = NoProbe

CallUpdateMemory ==
    /\ pc = "START"
    /\ Updates < MaxUpdates
    /\ \E strategy \in MemoryStrategies :
         /\ successful_strategies' =
              _update_agent_memory(successful_strategies, strategy,
                                   StampResults(Updates), StampQuality(Updates))
         /\ mem_history' =
              [mem_history EXCEPT ![strategy] =
                 Append(@, MemoryEntry(StampResults(Updates), StampQuality(Updates)))]
    /\ UNCHANGED <<controller, inputs, pc, locals, history, probe>>

SpecMemory == InitMemory /\ [][CallUpdateMemory]_vars

(***************************************************************************)
(* Direct calls of _select_optimal_strategy: any plan the planner makes,   *)
(* any short cumulative result list, any small iteration index, an empty   *)
(* or a filled memory.                                                     *)
(***************************************************************************)
ProbeResults ==
    { SearchResult(H4, Rat(1, 2), Source("azure_search", <<>>), <<"general">>,
                   "beginner"),
      SearchResult(H1, Rat(1, 2), Source("azure_search", <<>>), <<"general">>,
                   "beginner"),
      SearchResult(H5, Rat(3, 5), Source("azure_search_targeted", <<>>),
                   <<"targeted">>, "intermediate"),
      SearchResult(H6, Rat(3, 5), Source("azure_search_targeted", <<>>),
                   <<"targeted">>, "intermediate") }

ProbeLists == UNION {[1..n -> ProbeResults] : n \in 0..MaxProbeLen}

ProbePlans ==
    {_create_strategic_plan(_analyze_user_profile([agent_type |-> g], EmptyText), 3) :
        g \in Goals}

ProbeMemories ==
    { <<>>,
      _update_agent_memory(<<>>, TARGETED_SEARCH, <<>>, StampQuality(5)) }

InitSelect ==
    /\ IdleController
    /\ probe \in [op : {"select"}, plan : ProbePlans, results : ProbeLists,
                  iteration : 0..MaxProbeIter, memory : ProbeMemories,
                  done : {FALSE}, out : {NoStrategy}]

CallSelect ==
    /\ pc = "START"
    /\ probe.op = "select"
    /\ ~probe.done
    /\ probe' = [probe EXCEPT
                   !.out = _select_optimal_strategy(probe.plan, probe.results,
                                                    probe.iteration, probe.memory),
                   !.done = TRUE]
    /\ UNCHANGED <<controller, successful_strategies, inputs, pc, locals, history,
                   mem_history>>

SpecSelect == InitSelect /\ [][CallSelect]_vars

(***************************************************************************)
(* A controller instance that is reused or shared: before a request starts *)
(* the memory is what the previous request left, or what other requests    *)
(* served by the instance have left in the meantime.                       *)
(***************************************************************************)
InitialMemories ==
    { <<>>,
      _update_agent_memory(<<>>, TARGETED_SEARCH, <<>>, StampQuality(5)),
      _update_agent_memory(
          _update_agent_memory(
              _update_agent_memory(<<>>, BROAD_SEARCH, StampResults(2), StampQuality(2)),
              PROGRESSIVE_REFINEMENT, StampResults(3), StampQuality(6)),
          BROAD_SEARCH, StampResults(1), StampQuality(3)) }

\* other requests have run on the instance before this one starts
ServeOthers ==
    /\ pc = "START"
    /\ successful_strategies' \in InitialMemories \ {successful_strategies}
    /\ UNCHANGED <<controller, inputs, pc, locals, history, mem_history, probe>>

NextShared == Next \/ NewRequest \/ ServeOthers

SpecShared == InitRerun /\ [][NextShared]_vars

(***************************************************************************)
(* Direct calls of _execute_strategic_search: any strategy, any stub of    *)
(* the search collaborator, the plan of any goal with or without visual    *)
(* insights, any iteration index up to MaxSearchIter.                      *)
(***************************************************************************)
ProbeProfile(goal, text) == _analyze_user_profile([agent_type |-> goal], text)

InitSearch ==
    /\ IdleController
    /\ probe \in [op : {"search"}, strategy : AgentStrategy, stub : SearchStubs,
                  goal : Goals, text : {EmptyText, VisionRich},
                  iteration : 0..MaxSearchIter,
                  done : {FALSE}, results : {<<>>}, calls : {<<>>}]

CallSearch ==
    /\ pc = "START"
    /\ probe.op = "search"
    /\ ~probe.done
    /\ LET user_profile_ == ProbeProfile(probe.goal, probe.text)
           plan == _create_strategic_plan(user_profile_, 3)
           out == _execute_strategic_search(probe.stub, probe.strategy, plan,
                                            user_profile_, probe.iteration)
       IN  probe' = [probe EXCEPT !.results = out.results, !.calls = out.calls,
                                  !.done = TRUE]
    /\ UNCHANGED <<controller, successful_strategies, inputs, pc, locals, history,
                   mem_history>>

SpecSearch == InitSearch /\ [][CallSearch]_vars

(***************************************************************************)
(* Direct calls of _assess_result_quality: any plan of the planner, one of *)
(* a few accumulated result lists, any short list of new results.          *)
(***************************************************************************)
AssessResults ==
    { SearchResult(H1, Rat(1, 2), Source("azure_search", <<>>), <<"general">>,
                   "beginner"),
      SearchResult(H3, Rat(1, 2), Source("azure_search", <<>>), <<"general">>,
                   "beginner"),
      SearchResult(H4, Rat(1, 2), Source("azure_search", <<>>), <<"general">>,
                   "beginner"),
      SearchResult(H5, Rat(3, 5), Source("azure_search_targeted", <<>>),
                   <<"targeted">>, "intermediate"),
      SearchResult(H6, Rat(3, 5), Source("azure_search_targeted", <<>>),
                   <<"targeted">>, "intermediate"),
      SearchResult(H4, Rat(11, 20), Source("azure_search_angle", <<"beginner", "fitness">>),
                   <<"multi_angle">>, "varied") }

AssessNewLists == UNION {[1..n -> AssessResults] : n \in 0..MaxAssessLen}

AssessHistories ==
    { <<>>,
      _execute_broad_search([mask |-> {}, cat |-> "bare"],
                            [primary_goal |-> "general"], NoProfile).results,
      _execute_broad_search([mask |-> {1}, cat |-> "rich"],
                            [primary_goal |-> "general"], NoProfile).results,
      _execute_broad_search([mask |-> {}, cat |-> "rich"],
                            [primary_goal |-> "cardio"], NoProfile).results
        \o _execute_broad_search([mask |-> {}, cat |-> "bare"],
                                 [primary_goal |-> "cardio"], NoProfile).results }

AssessPlans ==
    {_create_strategic_plan(ProbeProfile(g, text), 3) :
        g \in Goals, text \in {EmptyText, VisionRich}}

InitAssess ==
    /\ IdleController
    /\ probe \in [op : {"assess"}, plan : AssessPlans, new_results : AssessNewLists,
                  all_results : AssessHistories, done : {FALSE}, out : {NoQuality}]

CallAssess ==
    /\ pc = "START"
    /\ probe.op = "assess"
    /\ ~probe.done
    /\ probe' = [probe EXCEPT
                   !.out = _assess_result_quality(probe.new_results, probe.plan,
                                                  probe.all_results),
                   !.done = TRUE]
    /\ UNCHANGED <<controller, successful_strategies, inputs, pc, locals, history,
                   mem_history>>

SpecAssess == InitAssess /\ [][CallAssess]_vars

(***************************************************************************)
(* Direct calls of _create_strategic_plan: a goal of the closed set or any *)
(* other string, any set of visual insights whose value is truthy.         *)
(***************************************************************************)
PlanGoals == Goals \cup {"yoga", ""}

\* the keys _create_strategic_plan reads, and one it does not read
PlannerFlags ==
    {"form_issues", "equipment_available", "muscle_definition", "posture_issues",
     "current_fitness_level", "form_assessment", "mobility_issues",
     "equipment_assessment", "body_composition"}

InitPlan ==
    /\ IdleController
    /\ probe \in [op : {"plan"}, goal : PlanGoals, flags : SUBSET PlannerFlags,
                  done : {FALSE}, out : {NoPlan}]

CallPlan ==
    /\ pc = "START"
    /\ probe.op = "plan"
    /\ ~probe.done
    /\ probe' = [probe EXCEPT
                   !.out = _create_strategic_plan(
                               [primary_goal |-> probe.goal,
                                visual_assessment |-> probe.flags,
                                image_analysis |-> EmptyText],
                               max_iterations),
                   !.done = TRUE]
    /\ UNCHANGED <<controller, successful_strategies, inputs, pc, locals, history,
                   mem_history>>

SpecPlan == InitPlan /\ [][CallPlan]_vars

(***************************************************************************)
(* ai.get_fitness_recommendation: the vision call of the main thread and   *)
(* the background thread that fetches the MCP enrichment, joined with a    *)
(* timeout.  The state of one call is held in probe: the position of the   *)
(* main thread, the state of the background thread, the locals and the     *)
(* result attribute the background thread sets on get_mcp_data.            *)
(***************************************************************************)
\* Python None as the content of the vision response
NoneContent == "None"
VisionContents == {"detailed analysis", "brief analysis", "", NoneContent}
\* the vision call raises, or returns a response with a content
VisionResponses ==
    {[raised |-> TRUE, content |-> NoneContent]}
      \cup {[raised |-> FALSE, content |-> c] : c \in VisionContents}

EmptyDict == "{}"
McpDicts == {"enhanced plan", "mcp not available"}
\* what get_mcp_data does in the background thread: returns a dict, raises
\* (int(age), float(weight) or the MCP call), or does not come back
McpBehaviours ==
    {[kind |-> "returns", dict |-> d] : d \in McpDicts}
      \cup {[kind |-> "raises", dict |-> EmptyDict],
            [kind |-> "hangs", dict |-> EmptyDict]}

\* get_mcp_data has no attribute 'result'
NoAttr == "no attribute"
NotReturned == "not returned"
ClearerImageText == "Analysis complete - please try uploading a clearer image"
VisionErrorText == "An error occurred while analyzing your image"

\* Python truthiness of the content of the vision response
ContentTruthy(content) == content \notin {"", NoneContent}

\* a return that hands out the enriched text when the MCP data arrived
ReturnedTextWithMcp(vision_analysis, mcp_recommendations) ==
    IF mcp_recommendations # EmptyDict THEN "analysis enriched with MCP data"
    ELSE IF ContentTruthy(vision_analysis) THEN vision_analysis
    ELSE ClearerImageText

\* ai.py:195-199
ReturnedText(vision_analysis, mcp_recommendations) ==
    IF ContentTruthy(vision_analysis) THEN vision_analysis ELSE ClearerImageText

InitRecommend ==
    /\ IdleController
    /\ probe \in [op : {"recommend"}, response : VisionResponses,
                  mcp : McpBehaviours, start_fails : BOOLEAN,
                  main : {"VISION"}, thread : {"none"}, result_attr : {NoAttr},
                  vision_analysis : {NoneContent},
                  mcp_recommendations : {EmptyDict}, timed_out : {FALSE},
                  ret : {NotReturned}]

Recommending == pc = "START" /\ probe.op = "recommend"
RestUnchanged ==
    UNCHANGED <<controller, successful_strategies, inputs, pc, locals, history,
                mem_history>>

\* ai.py:154-169 and 201-203
CallVision ==
    /\ Recommending
    /\ probe.main = "VISION"
    /\ probe' = IF probe.response.raised
                  THEN [probe EXCEPT !.main = "RETURNED", !.ret = VisionErrorText]
                  ELSE [probe EXCEPT !.main = "START_THREAD",
                                     !.vision_analysis = probe.response.content]
    /\ RestUnchanged

\* ai.py:185-187; a thread that cannot be started raises into the inner
\* except (192-193)
StartThread ==
    /\ Recommending
    /\ probe.main = "START_THREAD"
    /\ probe' = IF probe.start_fails
                  THEN [probe EXCEPT !.main = "RETURN"]
                  ELSE [probe EXCEPT !.main = "JOIN", !.thread = "running"]
    /\ RestUnchanged

\* ai.py:176-185, the background thread: setattr(get_mcp_data, 'result',
\* get_mcp_data()), or an exception that ends the thread
ThreadRuns ==
    /\ Recommending
    /\ probe.thread = "running"
    /\ probe.mcp.kind # "hangs"
    /\ probe' = IF probe.mcp.kind = "returns"
                  THEN [probe EXCEPT !.thread = "done", !.result_attr = probe.mcp.dict]
                  ELSE [probe EXCEPT !.thread = "failed"]
    /\ RestUnchanged

\* ai.py:188, join returns because the thread has ended
JoinReturns ==
    /\ Recommending
    /\ probe.main = "JOIN"
    /\ probe.thread \in {"done", "failed"}
    /\ probe' = [probe EXCEPT !.main = "HASATTR"]
    /\ RestUnchanged

\* ai.py:188, join returns after 5 seconds while the thread is running
JoinTimesOut ==
    /\ Recommending
    /\ probe.main = "JOIN"
    /\ probe.thread = "running"
    /\ probe' = [probe EXCEPT !.main = "HASATTR", !.timed_out = TRUE]
    /\ RestUnchanged

\* ai.py:190-191
CheckResult ==
    /\ Recommending
    /\ probe.main = "HASATTR"
    /\ probe' = IF probe.result_attr # NoAttr
                  THEN [probe EXCEPT !.main = "RETURN",
                                     !.mcp_recommendations = probe.result_attr]
                  ELSE [probe EXCEPT !.main = "RETURN"]
    /\ RestUnchanged

\* ai.py:195-199
Return ==
    /\ Recommending
    /\ probe.main = "RETURN"
    /\ probe' = [probe EXCEPT
                   !.main = "RETURNED",
                   !.ret = ReturnedText(probe.vision_analysis,
                                        probe.mcp_recommendations)]
    /\ RestUnchanged

NextRecommend ==
    \/ CallVision
    \/ StartThread
    \/ ThreadRuns
    \/ JoinReturns
    \/ JoinTimesOut
    \/ CheckResult
    \/ Return

SpecRecommend == InitRecommend /\ [][NextRecommend]_vars

(***************************************************************************)
(* Properties.                                                             *)
(***************************************************************************)
\* the number of loop iterations the request has begun
IterationsExecuted == Len(strategies_log)
\* the for loop has been left
LoopOver == pc \in {"SYNTHESIZING", "REFLECTING", "DONE", "RAISED"}
\* the loop was left after an iteration, whose assessment the locals still hold
StoppedAfterIteration == LoopOver /\ iteration >= 0
\* the assessment of the current iteration has been made
Assessed == pc \in {"EXTEND", "STOPCHECK", "MEMORY"} \/ StoppedAfterIteration
MeetsCriteria ==
    "meets_criteria" \in DOMAIN quality_assessment /\ quality_assessment.meets_criteria
Max0(n) == IF n < 0 THEN 0 ELSE n
TotalEntries(hist) ==
    Len(hist[BROAD_SEARCH]) + Len(hist[TARGETED_SEARCH])
      + Len(hist[PROGRESSIVE_REFINEMENT]) + Len(hist[MULTI_ANGLE_APPROACH])
EventCount(names) == Cardinality({k \in 1..Len(events) : events[k].ev \in names})

\* C1 as stated: once the loop is over, at least one and at most
\* max_iterations iterations were executed, whatever max_iterations is
C1_AtLeastOneIteration ==
    LoopOver => (IterationsExecuted >= 1 /\ IterationsExecuted <= max_iterations)

\* C1 amended: the number of iterations executed never exceeds max_iterations
\* (or 0 when max_iterations is negative), and once the loop is over it is at
\* least 1 provided max_iterations is at least 1
C1_IterationBounds ==
    /\ IterationsExecuted <= Max0(max_iterations)
    /\ (LoopOver /\ max_iterations >= 1) => IterationsExecuted >= 1

\* a request that used every iteration of a configuration that allows several
C1_Witness ==
    pc = "DONE" /\ max_iterations >= 2 /\ IterationsExecuted = max_iterations

\* C2: the stop check after iteration i ends the loop exactly when
\* meets_criteria is true, i = max_iterations - 1 or the overall score is at
\* least 0.9; otherwise the loop goes on and iteration i + 1 is executed next
C2_StopIff ==
    [][ /\ pc = "STOPCHECK" =>
             IF \/ MeetsCriteria
                \/ iteration = max_iterations - 1
                \/ RGe(quality_assessment.overall_score, Rat(9, 10))
               THEN pc' = "SYNTHESIZING"
               ELSE pc' = "MEMORY"
        /\ pc = "MEMORY" => pc' = "LOOP" /\ iteration' = iteration
        /\ (pc = "LOOP" /\ iteration >= 0) =>
             (pc' = "SELECT" /\ iteration' = iteration + 1) ]_vars

\* the loop was left before the cap because the criteria were met
C2_Witness ==
    /\ pc = "SYNTHESIZING"
    /\ iteration >= 0
    /\ iteration < max_iterations - 1
    /\ MeetsCriteria
    /\ RLt(quality_assessment.overall_score, Rat(9, 10))

\* C3: an iteration with no new results is assessed as all zeros with
\* meets_criteria false, and the loop stops after it only at the cap
C3_ZeroResults ==
    (Assessed /\ iteration_results = <<>>) =>
        /\ quality_assessment.overall_score = Zero
        /\ quality_assessment.relevance = Zero
        /\ quality_assessment.coverage = Zero
        /\ quality_assessment.diversity = Zero
        /\ ~MeetsCriteria
        /\ StoppedAfterIteration => iteration = max_iterations - 1

\* the loop goes on after an empty iteration that follows a fruitful one
C3_Witness ==
    pc = "MEMORY" /\ iteration_results = <<>> /\ search_results # <<>>

\* every query of the stub raises
AllQueriesRaise == search_client.mask = 0..(MaskWidth - 1)

\* C4 as stated: under a total outage exactly max_iterations iterations run
C4_OutageRunsMaxIterations ==
    (AllQueriesRaise /\ LoopOver) => IterationsExecuted = max_iterations

\* C4 amended: when every query raises, every iteration has zero new results
\* and is followed by the stop check, exactly max(max_iterations, 0)
\* iterations are executed, and synthesis follows
C4_TotalOutage ==
    AllQueriesRaise =>
        /\ search_results = <<>>
        /\ Assessed => (iteration_results = <<>> /\ ~MeetsCriteria)
        /\ LoopOver =>
             /\ IterationsExecuted = Max0(max_iterations)
             /\ EventCount({"stop", "continue"}) = IterationsExecuted
        /\ pc = "DONE" => EventCount({"synthesize"}) = 1

\* a request served to the end during a total outage of the search
C4_Witness ==
    /\ AllQueriesRaise
    /\ pc = "DONE"
    /\ max_iterations >= 2
    /\ IterationsExecuted = max_iterations

\* C5: whatever the search and vision collaborators do, a request ends, and
\* it ends by returning a text that holds the baseline recommendation unless
\* the baseline collaborator itself raised
C5_Terminates ==
    (pc = "START") ~>
        \/ pc = "DONE" /\ final_recommendation.recommendation.base = BaselineText
        \/ pc = "RAISED" /\ raised_by = "baseline"

\* a request answered although search queries and the vision call raised
C5_Witness ==
    /\ pc = "DONE"
    /\ search_client.mask # {}
    /\ images /\ ai_client /\ vision.kind = "raise"
    /\ final_recommendation.recommendation.base = BaselineText

\* C6: the accumulated results change only by the append of the iteration's
\* new results, in order, at the end of the sequence
C6_AppendOnly ==
    [][ /\ pc = "EXTEND" => search_results' = search_results \o iteration_results
        /\ pc # "EXTEND" => search_results' = search_results
        /\ IsPrefix(search_results, search_results') ]_vars

\* a second iteration has appended its results to those of the first
C6_Witness ==
    /\ pc = "STOPCHECK"
    /\ iteration >= 1
    /\ iteration_results # <<>>
    /\ Len(search_results) > Len(iteration_results)

\* C7 as stated: by the time of an iteration's stop decision the memory has
\* gained one entry per executed iteration, the current one included, and so
\* it has when the loop is over
C7_MemoryEveryIteration ==
    /\ pc = "STOPCHECK" => TotalEntries(mem_history) = iteration + 1
    /\ LoopOver => TotalEntries(mem_history) = IterationsExecuted

\* C8: each strategy's history is the last 10 of the entries ever added for
\* it, in insertion order
C8_LastTen ==
    \A strategy \in AgentStrategy :
        /\ Len(MemEntries(successful_strategies, strategy)) <= 10
        /\ MemEntries(successful_strategies, strategy)
             = LastN(mem_history[strategy], 10)

\* one strategy has overflowed its window while another holds entries too
C8_Witness ==
    /\ Len(mem_history[BROAD_SEARCH]) > 10
    /\ mem_history[BROAD_SEARCH][1] # mem_history[BROAD_SEARCH][11]
    /\ mem_history[MULTI_ANGLE_APPROACH] # <<>>

\* C9: the runs of the loop on one controller, with the same inputs and
\* the same stubbed collaborators, agree on the plan, on the strategies
\* selected and on the final quality metrics
C9_Idempotent ==
    \A i, j \in 1..Len(completed) :
        /\ completed[i].plan = completed[j].plan
        /\ completed[i].strategies = completed[j].strategies
        /\ completed[i].quality_metrics = completed[j].quality_metrics

\* a second run finished on a controller whose memory the first run filled
C9_Witness ==
    /\ Len(completed) = 2
    /\ Len(completed[1].strategies) >= 2
    /\ successful_strategies # <<>>
    /\ completed[1].quality_metrics.confidence # Zero

\* C10: for iteration index 0 the selector returns BROAD_SEARCH, whatever the
\* plan, the cumulative results and the memory
C10_FirstIsBroad ==
    (probe.op = "select" /\ probe.done /\ probe.iteration = 0) =>
        probe.out = BROAD_SEARCH

\* the selector was called for iteration 0 with results that a later rule of
\* the cascade would match
C10_Witness ==
    /\ probe.op = "select"
    /\ probe.done
    /\ probe.iteration = 0
    /\ Len(probe.results) >= 3
    /\ _results_lack_specificity(probe.results)
    /\ probe.out = BROAD_SEARCH

\* C13 as stated: the iterations_used field of the output is the number of
\* loop iterations executed in the request
C13_IterationsUsed ==
    pc = "DONE" => final_recommendation.iterations_used = IterationsExecuted

\* C14 as stated: the strategies_employed field of the output lists the
\* strategy selected in each executed iteration, in iteration order
C14_StrategiesEmployed ==
    pc = "DONE" => final_recommendation.strategies_employed = strategies_log

\* the vision collaborator is called and raises, or there is no client to call
VisionFails == images /\ (~ai_client \/ vision.kind = "raise")
\* the plan the planner makes for the same user data when no image is given
PlanWithoutImages ==
    _create_strategic_plan(_analyze_user_profile(user_data, EmptyText), max_iterations)

\* C15 as stated: when the vision collaborator is unavailable or raises, the
\* analysis text of the request is empty, no visual-insight flag is set and
\* the plan's sub-goals are those of a request with no images
C15_VisionFailureIsEmpty ==
    VisionFails =>
        /\ pc # "START" => image_analysis = EmptyText
        /\ pc \notin {"START", "PLANNING"} =>
             /\ user_profile.visual_assessment = {}
             /\ agent_plan.sub_goals = PlanWithoutImages.sub_goals

\* a raised vision call whose message changed the plan's sub-goals
C15_Witness ==
    /\ vision.kind = "raise"
    /\ pc = "DONE"
    /\ "form_issues" \in user_profile.visual_assessment
    /\ agent_plan.sub_goals # PlanWithoutImages.sub_goals

\* the number of results of the probe whose exercise type is generic
ProbeGenericCount ==
    Cardinality({k \in 1..Len(probe.results) :
                    \E term \in {"general", "basic", "beginner", "simple"} :
                        term \in Range(probe.results[k].exercise_type)})
\* the mean relevance of the results of the probe
ProbeMeanRelevance ==
    RMul(RSum([k \in 1..Len(probe.results) |-> probe.results[k].relevance_score]),
         Rat(1, Len(probe.results)))

\* C16: the selector returns the strategy of the first rule that matches, in
\* the order: iteration 0, fewer than 3 results, more than 70% generic
\* results, mean relevance strictly between 0.4 and 0.7, cyclic fallback
C16_Cascade ==
    (probe.op = "select" /\ probe.done) =>
        probe.out =
          IF probe.iteration = 0 THEN BROAD_SEARCH
          ELSE IF Len(probe.results) < 3 THEN MULTI_ANGLE_APPROACH
          ELSE IF 10 * ProbeGenericCount > 7 * Len(probe.results) THEN TARGETED_SEARCH
          ELSE IF /\ RLt(Rat(4, 10), ProbeMeanRelevance)
                  /\ RLt(ProbeMeanRelevance, Rat(7, 10))
            THEN PROGRESSIVE_REFINEMENT
          ELSE probe.plan.search_strategies[
                 (probe.iteration % Len(probe.plan.search_strategies)) + 1]

\* a call in which both the generic rule and the refinement rule match, and
\* the earlier of the two decides
C16_Witness ==
    /\ probe.op = "select"
    /\ probe.done
    /\ probe.iteration > 0
    /\ Len(probe.results) >= 3
    /\ 10 * ProbeGenericCount > 7 * Len(probe.results)
    /\ RLt(Rat(4, 10), ProbeMeanRelevance)
    /\ RLt(ProbeMeanRelevance, Rat(7, 10))
    /\ probe.out = TARGETED_SEARCH

\* the plan of the probed strategy call
ProbePlan == _create_strategic_plan(ProbeProfile(probe.goal, probe.text), 3)

\* C12: TARGETED_SEARCH with an iteration index at or beyond the number of
\* sub-goals returns no result and calls the search collaborator not at
\* all; with a smaller index it calls it exactly once
C12_TargetedOutOfRange ==
    (probe.op = "search" /\ probe.done /\ probe.strategy = TARGETED_SEARCH) =>
        IF probe.iteration >= Len(ProbePlan.sub_goals)
          THEN probe.results = <<>> /\ probe.calls = <<>>
          ELSE Len(probe.calls) = 1

\* a targeted search called with the index that follows the last sub-goal
C12_Witness ==
    /\ probe.op = "search"
    /\ probe.done
    /\ probe.strategy = TARGETED_SEARCH
    /\ probe.stub.mask = {}
    /\ probe.stub.cat = "rich"
    /\ probe.iteration = Len(ProbePlan.sub_goals)
    /\ probe.results = <<>>

\* the fixed query list of the probed strategy, and the stub's answer to a query
ProbeTerms ==
    IF probe.strategy = BROAD_SEARCH THEN BroadTerms(probe.goal)
    ELSE AngleSearches(probe.goal)
ProbeAnswer(term) ==
    search_exercises_sync(probe.stub, term, ProbeProfile(probe.goal, probe.text))

RECURSIVE KeptHits(_)
\* the first two hits of every query of terms that does not raise, in query order
KeptHits(terms) ==
    IF terms = <<>> THEN <<>>
    ELSE (IF ProbeAnswer(Head(terms)).raised THEN <<>>
          ELSE SubSeq(ProbeAnswer(Head(terms)).hits, 1,
                      IF Len(ProbeAnswer(Head(terms)).hits) < 2
                        THEN Len(ProbeAnswer(Head(terms)).hits) ELSE 2))
         \o KeptHits(Tail(terms))

\* C17: BROAD_SEARCH and MULTI_ANGLE_APPROACH issue every query of their
\* fixed list whichever queries raise, and return exactly the mapped hits, at
\* most 2 per query, of the queries that did not raise, in query order
C17_PartialFailure ==
    (probe.op = "search" /\ probe.done
       /\ probe.strategy \in {BROAD_SEARCH, MULTI_ANGLE_APPROACH}) =>
        /\ probe.calls = ProbeTerms
        /\ Len(probe.results) = Len(KeptHits(ProbeTerms))
        /\ \A k \in 1..Len(probe.results) :
             /\ probe.results[k].content = KeptHits(ProbeTerms)[k].content
             /\ probe.results[k].relevance_score =
                  IF "score" \in KeptHits(ProbeTerms)[k].has
                    THEN KeptHits(ProbeTerms)[k].score
                  ELSE IF probe.strategy = BROAD_SEARCH THEN Rat(1, 2)
                  ELSE Rat(11, 20)

\* a broad search in which a query raised and a later query contributed hits
C17_Witness ==
    /\ probe.op = "search"
    /\ probe.done
    /\ probe.strategy = BROAD_SEARCH
    /\ probe.results # <<>>
    /\ \E j, k \in 1..Len(ProbeTerms) :
         /\ j < k
         /\ ProbeAnswer(ProbeTerms[j]).raised
         /\ ~ProbeAnswer(ProbeTerms[k]).raised
         /\ ProbeAnswer(ProbeTerms[k]).hits # <<>>

\* a rational lies in [0, 1]
InUnit(x) == RGe(x, Zero) /\ RGe(One, x)
\* the results the probed scorer call reads: accumulated, then new
ProbeBoth == probe.all_results \o probe.new_results
\* the distinct exercise-type tags, and the distinct muscle and difficulty tags
ProbeTypeCount ==
    Cardinality({ProbeBoth[k].exercise_type : k \in 1..Len(ProbeBoth)})
ProbeTagCount ==
    Cardinality(UNION {{ProbeBoth[k].target_muscles[j] :
                          j \in 1..Len(ProbeBoth[k].target_muscles)} :
                       k \in 1..Len(ProbeBoth)})
      + Cardinality({ProbeBoth[k].difficulty : k \in 1..Len(ProbeBoth)})

\* C11: the coverage and the diversity of every quality assessment lie in
\* [0, 1], also when the distinct exercise types outnumber the sub-goals or
\* the distinct muscle and difficulty tags exceed 10
C11_CoverageDiversityInUnit ==
    (probe.op = "assess" /\ probe.done) =>
        InUnit(probe.out.coverage) /\ InUnit(probe.out.diversity)

\* an assessment of results with more exercise types than sub-goals and more
\* than 10 muscle and difficulty tags
C11_Witness ==
    /\ probe.op = "assess"
    /\ probe.done
    /\ probe.new_results # <<>>
    /\ ProbeTypeCount > Len(probe.plan.sub_goals)
    /\ ProbeTagCount > 10
    /\ probe.out.coverage = One
    /\ probe.out.diversity = One

\* the number of distinct exercise types across all results accumulated so
\* far, the new ones included, divided by the number of sub-goals, capped at 1
ProbeCumulativeCoverage ==
    IF ProbeTypeCount >= Len(probe.plan.sub_goals) THEN One
    ELSE Rat(ProbeTypeCount, Len(probe.plan.sub_goals))

\* C18 as stated: the coverage of every assessment is the capped quotient of
\* the distinct exercise types accumulated so far by the number of sub-goals
C18_CoverageEveryIteration ==
    (probe.op = "assess" /\ probe.done) =>
        probe.out.coverage = ProbeCumulativeCoverage

\* C18 amended: the coverage of an assessment is that capped quotient when
\* the iteration brought new results, and 0 when it brought none, whatever
\* the earlier iterations accumulated
C18_CoverageCumulative ==
    (probe.op = "assess" /\ probe.done) =>
        probe.out.coverage =
          IF probe.new_results = <<>> THEN Zero ELSE ProbeCumulativeCoverage

\* an assessment whose coverage, below 1, counts types that only the earlier
\* results carry
C18_Witness ==
    /\ probe.op = "assess"
    /\ probe.done
    /\ probe.new_results # <<>>
    /\ probe.out.coverage # One
    /\ \E k \in 1..Len(probe.all_results) :
         \A j \in 1..Len(probe.new_results) :
             probe.all_results[k].exercise_type # probe.new_results[j].exercise_type

\* the mean relevance of the new results of the probed scorer call
ProbeBatchRelevance ==
    RMul(RSum([k \in 1..Len(probe.new_results) |->
                 probe.new_results[k].relevance_score]),
         Rat(1, Len(probe.new_results)))

\* C19: for a non-empty batch, relevance is the mean relevance of the new
\* results only, overall = 0.4 relevance + 0.3 coverage + 0.3 diversity, and
\* meets_criteria is true exactly when overall >= relevance_threshold (0.7)
C19_OverallFormula ==
    (probe.op = "assess" /\ probe.done /\ probe.new_results # <<>>) =>
        /\ probe.out.relevance = ProbeBatchRelevance
        /\ probe.out.overall_score =
             RAdd(RAdd(RMul(Rat(4, 10), probe.out.relevance),
                       RMul(Rat(3, 10), probe.out.coverage)),
                  RMul(Rat(3, 10), probe.out.diversity))
        /\ probe.plan.success_criteria.relevance_threshold = Rat(7, 10)
        /\ probe.out.meets_criteria <=> RGe(probe.out.overall_score, Rat(7, 10))

\* an assessment that meets the criteria although the relevance of the new
\* results alone is below the threshold
C19_Witness ==
    /\ probe.op = "assess"
    /\ probe.done
    /\ probe.new_results # <<>>
    /\ probe.all_results # <<>>
    /\ probe.out.meets_criteria
    /\ RLt(probe.out.relevance, Rat(7, 10))

\* C20 as stated: every SearchResult a retrieval strategy produced has a
\* relevance score in [0, 1], and the relevance and the overall score of
\* every quality assessment lie in [0, 1]
C20_ScoresInUnit ==
    /\ \A k \in 1..Len(iteration_results) :
         InUnit(iteration_results[k].relevance_score)
    /\ \A k \in 1..Len(search_results) : InUnit(search_results[k].relevance_score)
    /\ Assessed =>
         /\ InUnit(quality_assessment.relevance)
         /\ InUnit(quality_assessment.overall_score)

\* an assessment whose overall score exceeds 1 ended the loop before the cap
C20_Witness ==
    /\ pc = "DONE"
    /\ iteration < max_iterations - 1
    /\ RLt(One, quality_assessment.overall_score)

\* the events of one kind, as the sequence of their iteration indices
RECURSIVE IndicesOf(_, _)
IndicesOf(evs, name) ==
    IF evs = <<>> THEN <<>>
    ELSE (IF Head(evs).ev = name THEN <<Head(evs).iteration>> ELSE <<>>)
           \o IndicesOf(Tail(evs), name)
\* the steps of one iteration, in order
IterationSteps == <<"select", "search", "assess", "extend">>

\* C21: the phases occur in the order PLANNING, ITERATING(0), ITERATING(1),
\* ..., SYNTHESIZING, DONE: the iteration index starts at 0 and grows by one
\* per iteration, each iteration selects, retrieves, scores and appends in
\* that order before the next one begins, synthesis runs once, after the last
\* iteration, and nothing of the loop runs after it
C21_PhaseOrder ==
    /\ [](/\ pc \in {"START", "PLANNING"} => (iteration = -1 /\ events \in Seq({
                 [ev |-> "analyze_images", iteration |-> -1]}))
          /\ \A n \in 1..4 :
               /\ \A k \in 1..Len(IndicesOf(events, IterationSteps[n])) :
                    IndicesOf(events, IterationSteps[n])[k] = k - 1
               /\ n > 1 =>
                    Len(IndicesOf(events, IterationSteps[n]))
                      \in {Len(IndicesOf(events, IterationSteps[n - 1])) - 1,
                           Len(IndicesOf(events, IterationSteps[n - 1]))}
          /\ EventCount({"synthesize"}) = (IF pc \in {"REFLECTING", "DONE", "RAISED"}
                                             THEN 1 ELSE 0)
          /\ LoopOver => Len(IndicesOf(events, "extend"))
                            = Len(IndicesOf(events, "select")))
    /\ [][ /\ pc = "START" => pc' = "PLANNING"
           /\ pc = "PLANNING" => pc' = "LOOP"
           /\ pc = "LOOP" => \/ pc' = "SELECT" /\ iteration' = iteration + 1
                             \/ pc' = "SYNTHESIZING" /\ iteration' = iteration
           /\ pc = "SELECT" => pc' = "SEARCH"
           /\ pc = "SEARCH" => pc' = "ASSESS"
           /\ pc = "ASSESS" => pc' = "EXTEND"
           /\ pc = "EXTEND" => pc' = "STOPCHECK"
           /\ pc = "STOPCHECK" => pc' \in {"MEMORY", "SYNTHESIZING"}
           /\ pc = "MEMORY" => pc' = "LOOP"
           /\ pc = "SYNTHESIZING" => pc' \in {"REFLECTING", "RAISED"}
           /\ pc = "REFLECTING" => pc' = "DONE"
           /\ pc \notin {"LOOP"} => iteration' = iteration
           /\ pc \notin {"START", "PLANNING", "LOOP", "SELECT", "SEARCH", "ASSESS",
                         "EXTEND", "STOPCHECK", "MEMORY", "SYNTHESIZING",
                         "REFLECTING"} => FALSE ]_vars

\* a request that ran three iterations, recorded two of them in the memory and
\* was synthesized
C21_Witness ==
    /\ pc = "DONE"
    /\ IndicesOf(events, "select") = <<0, 1, 2>>
    /\ IndicesOf(events, "memory") = <<0, 1>>
    /\ EventCount({"synthesize"}) = 1

\* the goal category of the probed planner call
ProbeCategory ==
    IF probe.goal \in {"weight_loss", "muscle_gain", "cardio"} THEN probe.goal
    ELSE "general"

RECURSIVE ProbeAppended(_)
\* the sub-goals of the (flag, sub-goal) pairs of cond whose flag is set in
\* the probed call, in the order of cond
ProbeAppended(cond) ==
    IF cond = <<>> THEN <<>>
    ELSE (IF Head(cond)[1] \in probe.flags THEN <<Head(cond)[2]>> ELSE <<>>)
           \o ProbeAppended(Tail(cond))

\* C22: for every goal and every set of visual-insight flags the planner
\* returns the four base sub-goals of the goal's category in their fixed
\* order (the general list for a goal other than weight_loss, muscle_gain
\* and cardio), then only the conditional sub-goals whose flags are set, and
\* the category's pair of strategies
C22_PlannerLookup ==
    (probe.op = "plan" /\ probe.done) =>
        /\ Len(BaseSubGoals(ProbeCategory)) = 4
        /\ Len(probe.out.sub_goals) >= 4
        /\ SubSeq(probe.out.sub_goals, 1, 4) = BaseSubGoals(ProbeCategory)
        /\ SubSeq(probe.out.sub_goals, 5, Len(probe.out.sub_goals))
             = ProbeAppended(ConditionalSubGoals(ProbeCategory))
        /\ Len(probe.out.search_strategies) = 2
        /\ probe.out.search_strategies = PlanStrategies(ProbeCategory)
        /\ probe.out.primary_goal = probe.goal

\* a plan for an unknown goal string with one of the three general flags
\* set and a flag of another category set
C22_Witness ==
    /\ probe.op = "plan"
    /\ probe.done
    /\ probe.goal = "yoga"
    /\ probe.flags = {"mobility_issues", "form_issues"}
    /\ probe.out.sub_goals =
         << <<"find", "foundational", "exercises">>,
            <<"identify", "balanced", "routines">>,
            <<"locate", "beginner", "progressions">>,
            <<"discover", "safety", "guidelines">>,
            <<"address", "mobility", "limitations">> >>
    /\ probe.out.search_strategies = <<BROAD_SEARCH, PROGRESSIVE_REFINEMENT>>

\* the query made of the plan's first sub-goal, for the goal of the probe
ProbeFirstQuery ==
    CASE probe.goal = "weight_loss" -> <<"high", "intensity", "cardio">>
      [] probe.goal = "muscle_gain" -> <<"progressive", "strength", "exercises">>
      [] probe.goal = "cardio" -> <<"endurance", "training", "methods">>
      [] OTHER -> <<"foundational", "exercises">>

\* C23: PROGRESSIVE_REFINEMENT behaves as TARGETED_SEARCH at index 0: whatever
\* the iteration index it issues one query, made of the plan's first
\* sub-goal, and returns at most 3 results, those of the targeted search at 0
C23_RefinementIsTargetedAtZero ==
    (probe.op = "search" /\ probe.done /\ probe.strategy = PROGRESSIVE_REFINEMENT) =>
        /\ probe.calls = <<ProbeFirstQuery>>
        /\ Len(probe.results) <= 3
        /\ Len(probe.results) =
             (IF ProbeAnswer(ProbeFirstQuery).raised THEN 0
              ELSE IF Len(ProbeAnswer(ProbeFirstQuery).hits) < 3
                THEN Len(ProbeAnswer(ProbeFirstQuery).hits) ELSE 3)
        /\ \A k \in 1..Len(probe.results) :
             /\ probe.results[k].content = ProbeAnswer(ProbeFirstQuery).hits[k].content
             /\ probe.results[k].source.tag = "azure_search_targeted"
        /\ probe.results =
             _execute_targeted_search(probe.stub, ProbePlan,
                                      ProbeProfile(probe.goal, probe.text), 0).results

\* a refinement selected in a late iteration that returned three results of
\* a catalogue holding more
C23_Witness ==
    /\ probe.op = "search"
    /\ probe.done
    /\ probe.strategy = PROGRESSIVE_REFINEMENT
    /\ probe.iteration = MaxSearchIter
    /\ probe.stub.cat = "bare"
    /\ Len(probe.results) = 3

\* C24: the memory never influences control: requests with the same inputs
\* and the same collaborator answers, started from any two memory states,
\* have the same plan, the same strategy in every iteration, the same
\* quality assessments, the same stop iteration and the same final metrics
C24_MemoryNeverInfluencesControl ==
    \A i, j \in 1..Len(completed) :
        /\ completed[i].plan = completed[j].plan
        /\ completed[i].strategies = completed[j].strategies
        /\ completed[i].assessments = completed[j].assessments
        /\ completed[i].stopped_at = completed[j].stopped_at
        /\ completed[i].iterations = completed[j].iterations
        /\ completed[i].quality_metrics = completed[j].quality_metrics

\* two finished requests of several iterations whose memories differed so
\* that the strategy commentary of one names another strategy than the other's
C24_Witness ==
    /\ Len(completed) = 2
    /\ Len(completed[1].strategies) >= 2
    /\ ~completed[1].commentary.initial
    /\ ~completed[2].commentary.initial
    /\ completed[1].commentary # completed[2].commentary

\* the commentary of the synthesized recommendation is the sentinel that the
\* synthesizer returns for an empty memory
SentinelCommentary ==
    final_recommendation.agentic_metadata.search_strategy_analysis.initial

\* C25 as stated: on a fresh controller, once the loop is over the memory
\* holds as many entries as iterations were executed, minus one
C25_EntriesAreIterationsMinusOne ==
    LoopOver =>
        TotalEntries([strategy \in AgentStrategy |->
                        MemEntries(successful_strategies, strategy)])
          = IterationsExecuted - 1

\* C25 amended: on a fresh controller, once the loop is over the number of
\* entries added to the memory is the number of iterations executed minus
\* one, or 0 when no iteration was executed; the memory holds the last 10 of
\* them per strategy; and a request that executed at most one iteration is
\* synthesized with an empty memory and the sentinel commentary
C25_LastIterationUnrecorded ==
    /\ LoopOver =>
         /\ TotalEntries(mem_history) = Max0(IterationsExecuted - 1)
         /\ \A strategy \in AgentStrategy :
              MemEntries(successful_strategies, strategy)
                = LastN(mem_history[strategy], 10)
    /\ (LoopOver /\ IterationsExecuted <= 1) => successful_strategies = <<>>
    /\ (pc \in {"REFLECTING", "DONE"} /\ IterationsExecuted <= 1) => SentinelCommentary
    /\ (pc \in {"REFLECTING", "DONE"} /\ IterationsExecuted >= 2) => ~SentinelCommentary

\* a request that could have run further iterations stopped after its first
\* one and was synthesized with the sentinel commentary
C25_Witness ==
    /\ pc = "DONE"
    /\ max_iterations >= 2
    /\ IterationsExecuted = 1
    /\ iteration_results # <<>>
    /\ successful_strategies = <<>>
    /\ SentinelCommentary

\* C26: every quality assessment whose overall score is at least 0.9 has
\* meets_criteria true, so the stop decision is the one made without the
\* early exit on excellence: stop exactly when the criteria are met or the
\* iteration is the last one allowed
C26_ExcellenceImpliesCriteria ==
    /\ Assessed =>
         (RGe(DictGet(quality_assessment, "overall_score", Zero), Rat(9, 10))
            => MeetsCriteria)
    /\ pc = "STOPCHECK" =>
         (_should_stop_searching(quality_assessment, agent_plan, iteration,
                                 max_iterations)
            <=> (MeetsCriteria \/ iteration >= max_iterations - 1))

\* the loop was left before the cap after an assessment with an overall score
\* between 0.9 and 1
C26_Witness ==
    /\ pc = "SYNTHESIZING"
    /\ iteration >= 0
    /\ iteration < max_iterations - 1
    /\ RGe(quality_assessment.overall_score, Rat(9, 10))
    /\ RLt(quality_assessment.overall_score, One)
    /\ MeetsCriteria

\* every query of the stub raises or returns no hits
NoHitsAtAll == AllQueriesRaise \/ search_client.cat = "empty"

\* C27: when every search query raises or returns no hits, the strategy is
\* BROAD_SEARCH at iteration 0 and MULTI_ANGLE_APPROACH at every later
\* iteration, and the accumulated results are still empty at synthesis
C27_NoHitsStrategies ==
    NoHitsAtAll =>
        /\ \A k \in 1..Len(strategies_log) :
             strategies_log[k] = (IF k = 1 THEN BROAD_SEARCH ELSE MULTI_ANGLE_APPROACH)
        /\ pc \in {"SEARCH", "ASSESS", "EXTEND", "STOPCHECK", "MEMORY"} =>
             current_strategy = (IF iteration = 0 THEN BROAD_SEARCH
                                 ELSE MULTI_ANGLE_APPROACH)
        /\ search_results = <<>>
        /\ LoopOver => IterationsExecuted = Max0(max_iterations)

\* a request of three iterations served by a collaborator that raises for
\* some queries and finds nothing for the others
C27_Witness ==
    /\ search_client.cat = "empty"
    /\ search_client.mask \notin {{}, 0..(MaskWidth - 1)}
    /\ pc = "SYNTHESIZING"
    /\ strategies_log = <<BROAD_SEARCH, MULTI_ANGLE_APPROACH, MULTI_ANGLE_APPROACH>>
    /\ search_results = <<>>

\* an assessment made of a non-empty list of new results: the scorer's
\* early return for an empty list carries no meets_criteria
OfNonEmptyBatch(quality) == "meets_criteria" \in DOMAIN quality
\* the assessments of the request's iterations that brought new results
BatchAssessments == SelectSeq(AssessmentsOf(events), OfNonEmptyBatch)

\* C28: within one request, over the iterations whose new-result list is not
\* empty, the coverage and the diversity reported by the scorer never
\* decrease from one iteration to a later one
C28_CoverageDiversityMonotone ==
    \A i, j \in 1..Len(BatchAssessments) :
        i < j =>
            /\ RGe(BatchAssessments[j].coverage, BatchAssessments[i].coverage)
            /\ RGe(BatchAssessments[j].diversity, BatchAssessments[i].diversity)

\* a request in which an iteration without new results lies between two
\* that brought some, the later one with a higher coverage and diversity
C28_Witness ==
    /\ pc = "DONE"
    /\ Len(AssessmentsOf(events)) = 3
    /\ Len(BatchAssessments) = 2
    /\ ~OfNonEmptyBatch(AssessmentsOf(events)[2])
    /\ RLt(BatchAssessments[1].coverage, BatchAssessments[2].coverage)
    /\ RLt(BatchAssessments[1].diversity, BatchAssessments[2].diversity)

\* C29: for every goal and every combination of visual-insight flags the
\* plan has between 4 and 7 sub-goals, so the number of sub-goals, by which
\* the scorer and the final metrics divide, is never zero
C29_SubGoalCount ==
    (probe.op = "plan" /\ probe.done) =>
        /\ Len(probe.out.sub_goals) >= 4
        /\ Len(probe.out.sub_goals) <= 7
        /\ Len(probe.out.sub_goals) # 0

\* the longest plan: a goal outside the closed set with every flag set
C29_Witness ==
    /\ probe.op = "plan"
    /\ probe.done
    /\ probe.goal = ""
    /\ probe.flags = PlannerFlags
    /\ Len(probe.out.sub_goals) = 7

\* C30: once the vision call has succeeded, the value get_fitness_recommendation
\* returns is fixed by the vision response alone: it is the same whether the
\* background thread finished before the join timeout, was still running at
\* the timeout, finished later or failed, and it never changes afterwards
C30_ReturnIgnoresBackgroundThread ==
    /\ [](( /\ probe.op = "recommend"
            /\ probe.main = "RETURNED"
            /\ ~probe.response.raised ) =>
              probe.ret = (IF probe.response.content \in {"", NoneContent}
                             THEN ClearerImageText
                             ELSE probe.response.content))
    /\ [][ (probe.op = "recommend" /\ probe.main = "RETURNED")
             => probe'.ret = probe.ret ]_vars

\* the join timed out, the background thread stored its result before the
\* main thread looked for it, and the vision text was returned
C30_Witness ==
    /\ probe.op = "recommend"
    /\ probe.main = "RETURNED"
    /\ probe.timed_out
    /\ probe.thread = "done"
    /\ probe.mcp_recommendations = "enhanced plan"
    /\ probe.ret = "detailed analysis"

====
